---- MODULE Spec2Model ----
(***************************************************************************)
(* A model of the scoring and resampling core of tracktastic (music.py,    *)
(* update.py): the metric engine of Track.from_api, Track.similarity_to,   *)
(* weighted_shuffle, the MetadataStats / TrackCollection aggregators and   *)
(* the update command that drives them.                                    *)
(*                                                                         *)
(* Units.  Python floats are modelled as fixed-point integers:             *)
(*   - a score is counted in 1/ScoreScale,                                 *)
(*   - an overdue ratio and a net rate in 1/RateScale,                     *)
(*   - a datetime, and a timedelta between datetimes, in hours,            *)
(*   - a track duration in tenths of a second.                             *)
(* A division of the code is a floor division on these integers.           *)
(* Strings are tuples of one-character strings, so that casefold() and     *)
(* the substring test of is_downranked can be computed.                    *)
(***************************************************************************)
EXTENDS Integers, Sequences, FiniteSets, TLC

(***************************************************************************)
(* Bounds of the model.                                                    *)
(***************************************************************************)
\* longest track list handed to weighted_shuffle
MaxTracks == 3
\* random.random() is drawn from {0, 1/Grid, ..., 1}
Grid == 2
\* random draws made by other code between two calls of weighted_shuffle
MaxOther == 1
\* longest track list handed to the aggregators
MaxAggTracks == 2
\* largest play count and skip count of a library record
MaxCount == 2
\* longest playlist of the library the update command runs on
MaxLib == 2
\* longest track list the mixtape is made from
MaxMix == 3
\* longest track list meander walks
MaxMeander == 17
\* longest list of records save_data is given or finds in the snapshot file
MaxDiff == 2
\* longest track list whose ratings are computed index by index
MaxRated == 201

(***************************************************************************)
(* Program constants and the fixed-point scales.                           *)
(***************************************************************************)
ScoreScale == 1000
RateScale == 8
ONE_HOUR == 1
ONE_DAY == 24 * ONE_HOUR
ONE_MONTH == 30 * ONE_DAY
ONE_YEAR == 8766 * ONE_HOUR
\* NOW = dt.datetime.now() at import, in hours since the epoch (a midnight)
NOW == 440000
\* MEDIAN_SONG_LENGTH = 3 min 48.1 s
MEDIAN_SONG_LENGTH == 2281
\* DEFAULT_SCORE_BASE = 1.591
DEFAULT_SCORE_BASE == 1591
\* TARGET_MEDIAN_SCORE = (5.0 + 0.05) / 2 = 2.525
TARGET_MEDIAN_SCORE == (5 * ScoreScale + ScoreScale \div 20) \div 2
\* weight_floor = 0.01
weight_floor == ScoreScale \div 100

VARIABLES
    \* Track class variables
    median_song_length, score_base, downranked_artists, downranked_genres,
    \* a.similarity_to(b): the two tracks, the feature vector, the result
    sim_a, sim_b, sim_vec, sim_out,
    \* Track.from_api: the library records handed to it, and its outcomes
    api_in, api_out,
    \* the update command: the configuration, the host library's playlists,
    \* the position in cli(), the error that ended it, the writes made so far
    cfg, library, files, step, abort, written,
    \* the Track objects built so far, and the PlaylistLoader's two caches
    heap, tracks_by_dbid, tracks_by_playlist,
    \* locals of cli(): source_tracks, playlist_map, the stats playlist reached
    source_tracks, playlist_map, stat_i,
    \* the calls made on the library's generated playlists and on their
    \* sentinel files, in order
    calls,
    \* weighted_shuffle: its argument, its locals, its result
    input, tracks, weights, total_weight, shuffled, pc, err,
    \* the random module: position in the stream since random.seed, and the
    \* values the generator yields at the positions read so far
    rng, stream,
    \* the caller: which call of weighted_shuffle this is, the first result,
    \* the other draws made in between
    call, first, others,
    \* MetadataStats(values) and TrackCollection(tracks): argument and outcome
    ms_in, ms_out, tc_in, tc_out,
    \* the mixtape: the track list, the budget filter_duration is tried with,
    \* the results of filter_unique_track_numbers, filter_duration and mixtape
    mix_tracks, mix_budget, fu_out, fd_out, mix_out,
    \* meander: its argument, its locals (chain holds the tracks of lines),
    \* the iterations of its loop made so far, its position, its error
    me_tracks, remaining, previous, chain, recent_albums,
    recent_album_artists, recent_track_artists, me_i, me_pc, me_err,
    \* save_data and show_diffs: the new records, the records of the snapshot
    \* file as it was, whether a score accessor is given, the show_diff flag,
    \* the snapshot file, what show_diffs logged or raised, the position
    df_current, df_previous, df_score, df_show, df_file, df_out, df_pc

shuffleVars == <<downranked_artists, downranked_genres, input, tracks, weights,
                 total_weight, shuffled, pc, err, rng, stream, call, first, others>>
statsVars == <<ms_in, ms_out, tc_in, tc_out>>
classVars == <<median_song_length, score_base>>
simVars == <<sim_a, sim_b, sim_vec, sim_out>>
apiVars == <<api_in, api_out>>
mixVars == <<mix_tracks, mix_budget, fu_out, fd_out, mix_out>>
meanderVars == <<me_tracks, remaining, previous, chain, recent_albums,
                 recent_album_artists, recent_track_artists, me_i, me_pc, me_err>>
insightVars == <<mixVars, meanderVars>>
saveVars == <<df_current, df_previous, df_score, df_show, df_file, df_out, df_pc>>
cliVars == <<cfg, library, files, step, abort, written, heap, tracks_by_dbid,
             tracks_by_playlist, source_tracks, playlist_map, stat_i, calls>>
vars == <<classVars, shuffleVars, statsVars, simVars, apiVars, insightVars, cliVars,
          saveVars>>

None == [kind |-> "none"]

\* the value of a result variable of a function that is not under study
Off == [kind |-> "off"]

(***************************************************************************)
(* Strings.                                                                *)
(***************************************************************************)
\* str.casefold() on one character of the model's alphabet
FoldChar(c) ==
    CASE c = "A" -> "a"
      [] c = "B" -> "b"
      [] c = "P" -> "p"
      [] OTHER -> c

casefold(s) == [i \in DOMAIN s |-> FoldChar(s[i])]

\* Python's `a in s` for strings
IsSubstring(a, s) ==
    \E i \in 0..(Len(s) - Len(a)) : SubSeq(s, i + 1, i + Len(a)) = a

(***************************************************************************)
(* Tracks.  A Track is a record of the dataclass fields the model reads.   *)
(***************************************************************************)
BaseTrack ==
    [ name |-> <<"s">>, track_artist |-> <<"x">>, album |-> <<"l">>,
      album_artist |-> <<"x">>, genre |-> <<"r">>, year |-> 2000,
      track_number |-> 1, play_count |-> 1, skip_count |-> 0,
      duration |-> MEDIAN_SONG_LENGTH,
      date_added |-> NOW - ONE_YEAR, rating |-> 0, dbid |-> 1,
      compilation |-> FALSE, favorite |-> FALSE, disliked |-> FALSE,
      last_played |-> NOW - ONE_DAY, last_skipped |-> NOW - 100 * ONE_YEAR,
      net_rate |-> 0, score |-> 0,
      overdue |-> 0, playlists |-> {} ]

\* the tracks weighted_shuffle is tried on: every combination of favorite and
\* down-ranked, and weights that come out positive, zero and negative
ShufflePool ==
    { [BaseTrack EXCEPT !.dbid = 1],
      [BaseTrack EXCEPT !.dbid = 2, !.score = TARGET_MEDIAN_SCORE,
                        !.overdue = RateScale \div 2, !.favorite = TRUE,
                        !.track_artist = <<"A", "b">>],
      [BaseTrack EXCEPT !.dbid = 3, !.score = ScoreScale,
                        !.overdue = -RateScale],
      [BaseTrack EXCEPT !.dbid = 4, !.score = -(ScoreScale \div 5),
                        !.overdue = -(RateScale + RateScale \div 2),
                        !.genre = <<"P">>] }

\* the shuffle section of the configuration: downranked_artists, downranked_genres
ShuffleConfigs ==
    { [artists |-> {}, genres |-> {}],
      [artists |-> {<<"B">>, <<>>}, genres |-> {<<"P">>}] }

\* Track.is_downranked, reading the class variables
IsDownrankedIn(track, artists, genres) ==
    \/ casefold(track.genre) \in genres
    \/ casefold(track.album_artist) \in artists
    \/ \E artist \in artists :
          /\ IsSubstring(artist, casefold(track.track_artist))
          /\ artist # <<>>      \* any() tests the truth of the artist string

is_downranked(track) == IsDownrankedIn(track, downranked_artists, downranked_genres)

(***************************************************************************)
(* Sequence helpers.                                                       *)
(***************************************************************************)
RECURSIVE SumTo(_, _)
SumTo(s, n) == IF n = 0 THEN 0 ELSE s[n] + SumTo(s, n - 1)

Sum(s) == SumTo(s, Len(s))

MinOf(S) == CHOOSE x \in S : \A y \in S : x <= y

\* list.pop(i) / del list[i], i counted from 1
RemoveAtOffByOne(s, i) ==
    LET j == IF i > 1 THEN i - 1 ELSE i
    IN  SubSeq(s, 1, j - 1) \o SubSeq(s, j + 1, Len(s))

RemoveAt(s, i) == SubSeq(s, 1, i - 1) \o SubSeq(s, i + 1, Len(s))

SeqsUpTo(S, n) == UNION { [1..k -> S] : k \in 0..n }

(***************************************************************************)
(* weighted_shuffle.                                                       *)
(***************************************************************************)
\* the weight of one track, in 1/(2 * ScoreScale * RateScale) so that the
\* halving of a down-ranked track is exact
WeightNoElif(track, min_score) ==
    LET w0 == (track.score - min_score + weight_floor) * 2
        w1 == w0 * (RateScale + track.overdue)
        w2 == IF is_downranked(track) THEN w1 \div 2 ELSE w1
    IN  IF track.favorite THEN w2 * 2 ELSE w2

Weight(track, min_score) ==
    LET w0 == (track.score - min_score + weight_floor) * 2
        w1 == w0 * (RateScale + track.overdue)
    IN  IF is_downranked(track) THEN w1 \div 2
        ELSE IF track.favorite THEN w1 * 2
        ELSE w1

\* the scan that stops only once r has dropped below zero
ScanStrict(ws, r) ==
    LET hits == { i \in 1..Len(ws) : r - Grid * SumTo(ws, i) < 0 }
    IN  IF hits = {} THEN 0 ELSE MinOf(hits)

\* the scan that compares r with each weight by itself
ScanEach(ws, r) ==
    LET hits == { i \in 1..Len(ws) : r - Grid * ws[i] <= 0 }
    IN  IF hits = {} THEN 0 ELSE MinOf(hits)

\* the inner for loop: r is counted in 1/Grid of a weight unit; the index of
\* the first weight at which r has dropped to zero or below, 0 if none
Scan(ws, r) ==
    LET hits == { i \in 1..Len(ws) : r - Grid * SumTo(ws, i) <= 0 }
    IN  IF hits = {} THEN 0 ELSE MinOf(hits)

\* random.random() at the current position of the stream: the value already
\* read there, or any value of the grid
Draws == IF rng \in DOMAIN stream THEN {stream[rng]} ELSE 0..Grid

\* NOW.toordinal(): the day number of NOW
toordinal(t) == t \div ONE_DAY

\* random.seed(seed) with seed = NOW.toordinal(): the generator restarts at the
\* first position of the stream that the seed fixes.  A position is
\* <<seed, number of values drawn since seeding>>.
SeedNoReset == rng
Seed == <<toordinal(NOW), 0>>

\* the generator after one more value has been drawn
Advance(pos) == <<pos[1], pos[2] + 1>>

\* lines 876-896: seeding, the copy of the list, the weights
ShuffleStart ==
    /\ pc = "idle"
    /\ rng' = Seed
    /\ shuffled' = <<>>
    /\ IF input = <<>>
       THEN \* min() of an empty sequence
            /\ pc' = "raised"
            /\ err' = "ValueError"
            /\ UNCHANGED <<tracks, weights, total_weight>>
       ELSE LET min_score == MinOf({ input[i].score : i \in DOMAIN input })
                ws == [i \in DOMAIN input |-> Weight(input[i], min_score)]
            IN  /\ tracks' = [i \in DOMAIN input |-> i]
                /\ weights' = ws
                /\ total_weight' = Sum(ws)
                /\ pc' = "loop"
                /\ UNCHANGED err
    /\ UNCHANGED <<downranked_artists, downranked_genres, input, stream, call,
                   first, others, statsVars, classVars, simVars, apiVars, insightVars, saveVars, cliVars>>

\* lines 897-919: one iteration of the while loop
ShuffleDraw ==
    /\ pc = "loop"
    /\ tracks # <<>>
    /\ \E u \in Draws :
          LET r == total_weight * u      \* random.uniform(0, total_weight)
              i == Scan(weights, r)
          IN  /\ stream' = IF rng \in DOMAIN stream THEN stream
                           ELSE stream @@ (rng :> u)
              /\ rng' = Advance(rng)
              /\ IF i = 0
                 THEN /\ pc' = "raised"
                      /\ err' = "RuntimeError"
                      /\ UNCHANGED <<tracks, weights, total_weight, shuffled>>
                 ELSE /\ shuffled' = Append(shuffled, tracks[i])
                      /\ tracks' = RemoveAt(tracks, i)
                      /\ weights' = RemoveAt(weights, i)
                      /\ total_weight' = total_weight - weights[i]
                      /\ UNCHANGED <<pc, err>>
    /\ UNCHANGED <<downranked_artists, downranked_genres, input, call, first,
                   others, statsVars, classVars, simVars, apiVars, insightVars, saveVars, cliVars>>

\* lines 920-923: the loop has emptied the list
ShuffleReturn ==
    /\ pc = "loop"
    /\ tracks = <<>>
    /\ pc' = "returned"
    /\ first' = IF call = 1 THEN shuffled ELSE first
    /\ UNCHANGED <<downranked_artists, downranked_genres, input, tracks, weights,
                   total_weight, shuffled, err, rng, stream, call, others,
                   statsVars, classVars, simVars, apiVars, insightVars, saveVars, cliVars>>

\* any other use of the random module between two calls (random.choice in
\* insights.py): the stream moves on
OtherDraw ==
    /\ pc = "returned"
    /\ call = 1
    /\ others < MaxOther
    /\ others' = others + 1
    /\ rng' = Advance(rng)
    /\ UNCHANGED <<downranked_artists, downranked_genres, input, tracks, weights,
                   total_weight, shuffled, pc, err, stream, call, first, statsVars,
                   classVars, simVars, apiVars, insightVars, saveVars, cliVars>>

\* the caller calls weighted_shuffle again, the same day, on the same list
CallAgain ==
    /\ pc = "returned"
    /\ call = 1
    /\ call' = 2
    /\ pc' = "idle"
    /\ UNCHANGED <<downranked_artists, downranked_genres, input, tracks, weights,
                   total_weight, shuffled, err, rng, stream, first, others,
                   statsVars, classVars, simVars, apiVars, insightVars, saveVars, cliVars>>

(***************************************************************************)
(* MetadataStats and TrackCollection.                                      *)
(***************************************************************************)
Raised(e) == [kind |-> "raised", error |-> e]

MaxOf(S) == CHOOSE x \in S : \A y \in S : x >= y

Range(s) == { s[i] : i \in DOMAIN s }

\* values.count(x)
Count(s, x) == Cardinality({ i \in DOMAIN s : s[i] = x })

\* sorted(values)
RECURSIVE Sorted(_)
Sorted(s) ==
    IF s = <<>> THEN <<>>
    ELSE LET m == MinOf(Range(s))
             i == MinOf({ j \in DOMAIN s : s[j] = m })
         IN  <<m>> \o Sorted(RemoveAt(s, i))

\* the elements of a set in ascending order
RECURSIVE SortedSet(_)
SortedSet(S) ==
    IF S = {} THEN <<>>
    ELSE <<MinOf(S)>> \o SortedSet(S \ {MinOf(S)})

Reverse(s) == [i \in DOMAIN s |-> s[Len(s) + 1 - i]]

\* median(values), counted in halves
median(values) ==
    LET count == Len(values)
        sorted_values == Sorted(values)
        half == count \div 2
    IN  IF count % 2 = 1 THEN 2 * sorted_values[half + 1]
        ELSE sorted_values[half] + sorted_values[half + 1]

\* the orders in which iterating set(values) can yield its elements
SetOrders(S) ==
    { o \in [1..Cardinality(S) -> S] : \A i, j \in DOMAIN o : o[i] = o[j] => i = j }

\* max(set(values), key=values.count): the first element, in the iteration
\* order of the set, of highest count
Mode(values, order) ==
    LET best == MaxOf({ Count(values, x) : x \in Range(values) })
        i == MinOf({ j \in DOMAIN order : Count(values, order[j]) = best })
    IN  order[i]

\* MetadataStats.__post_init__ without its assertion
MetadataStatsNoAssert(values, order) ==
    IF Len(values) = 0
    THEN [kind |-> "MetadataStats", total |-> 0, median |-> 0,
          median_total |-> 0, max |-> 0, min |-> 0, mode |-> 0]
    ELSE [kind |-> "MetadataStats",
          total |-> Sum(values),
          median |-> median(values),
          median_total |-> median(values) * Len(values),
          max |-> MaxOf(Range(values)),
          min |-> MinOf(Range(values)),
          mode |-> Mode(values, order)]

\* MetadataStats.__post_init__; order is the iteration order of set(values).
\* median and median_total are counted in halves; avg and std_dev, which no
\* other field depends on, are left out.
MetadataStats(values, order) ==
    IF ~(Len(values) > 0) THEN Raised("AssertionError")
    ELSE [kind |-> "MetadataStats",
          total |-> Sum(values),
          median |-> median(values),
          median_total |-> median(values) * Len(values),
          max |-> MaxOf(Range(values)),
          min |-> MinOf(Range(values)),
          mode |-> Mode(values, order)]

\* the fields TrackCollection summarises that a track of the model carries, in
\* the order of __post_init__ (the rates and durations derived from these by
\* from_api, and the file size, are summarised the same way)
CollectionFields ==
    <<"score", "net_rate", "overdue", "duration", "play_count", "skip_count",
      "rating", "year", "track_number", "num_playlists">>

FieldValue(track, f) ==
    IF f = "num_playlists" THEN Cardinality(track.playlists) ELSE track[f]

\* TrackCollection.__post_init__: one MetadataStats per field; the first one
\* that raises ends the construction.  asc: set iteration ascending or
\* descending.
TrackCollection(ts, asc) ==
    LET vals(f) == [i \in DOMAIN ts |-> FieldValue(ts[i], f)]
        ord(f) == IF asc THEN SortedSet(Range(vals(f)))
                  ELSE Reverse(SortedSet(Range(vals(f))))
        stat(f) == MetadataStats(vals(f), ord(f))
        n == Len(CollectionFields)
    IN  IF \E k \in 1..n : stat(CollectionFields[k]).kind = "raised"
        THEN stat(CollectionFields[1])
        ELSE [kind |-> "TrackCollection", count |-> Len(ts),
              stats |-> [k \in 1..n |-> stat(CollectionFields[k])]]

ShuffleOver == pc = "raised" \/ (pc = "returned" /\ call = 2)

\* MetadataStats([track.score for track in tracks]) on the caller's list
MetadataStatsBuild ==
    /\ ShuffleOver
    /\ ms_in = None
    /\ LET values == [i \in DOMAIN input |-> input[i].score]
       IN  /\ ms_in' = [kind |-> "values", arg |-> values]
           /\ \E order \in SetOrders(Range(values)) :
                 ms_out' = MetadataStats(values, order)
    /\ UNCHANGED <<shuffleVars, tc_in, tc_out, classVars, simVars, apiVars, insightVars, saveVars, cliVars>>

\* TrackCollection(name, tracks) on the caller's list
TrackCollectionBuild ==
    /\ ShuffleOver
    /\ tc_in = None
    /\ tc_in' = [kind |-> "tracks", arg |-> input]
    /\ \E asc \in BOOLEAN : tc_out' = TrackCollection(input, asc)
    /\ UNCHANGED <<shuffleVars, ms_in, ms_out, classVars, simVars, apiVars, insightVars, saveVars, cliVars>>

(***************************************************************************)
(* Track.similarity_to.                                                    *)
(***************************************************************************)
Abs(x) == IF x < 0 THEN -x ELSE x

\* floor division, also by a negative number
FloorDiv(a, b) == IF b > 0 THEN a \div b ELSE (-a) \div (-b)

UpperChars == {"A", "B", "P", "S"}
LowerChars == {"a", "b", "p", "s", "x", "y", "l", "m", "r"}

\* str.islower(): some cased character, and no uppercase one
islower(s) ==
    /\ \E i \in DOMAIN s : s[i] \in LowerChars
    /\ \A i \in DOMAIN s : s[i] \notin UpperChars

\* str.isupper(): some cased character, and no lowercase one
isupper(s) ==
    /\ \E i \in DOMAIN s : s[i] \in UpperChars
    /\ \A i \in DOMAIN s : s[i] \notin LowerChars

\* datetime.date(): the day number of an instant
date(t) == t \div ONE_DAY

\* A feature value is a fraction <<numerator, denominator>>.
Flag(b) == IF b THEN <<1, 1>> ELSE <<0, 1>>

\* 1 - diff / cutoff
DecayNoComplement(diff, cutoff) == <<diff, cutoff>>

Decay(diff, cutoff) == <<cutoff - diff, cutoff>>

\* the year difference without abs()
YearDiffSigned(a, b) == a.year - b.year

YearDiff(a, b) == Abs(a.year - b.year)

\* lines 110-164: the 13 feature values of the pair (self, other)
SimVec(self, other) ==
    LET year_cutoff == 5
        year_diff == YearDiff(self, other)
        year_sim == IF year_diff <= year_cutoff
                    THEN Decay(year_diff, year_cutoff) ELSE <<0, 1>>
        added_cutoff == 6 * ONE_MONTH
        added_diff == Abs(self.date_added - other.date_added)
        added_sim == IF added_diff <= added_cutoff
                     THEN Decay(added_diff, added_cutoff) ELSE <<0, 1>>
        combined_playlists == self.playlists \cup other.playlists
        common_playlists == self.playlists \cap other.playlists
        playlist_sim == IF combined_playlists # {}
                        THEN <<Cardinality(common_playlists),
                               Cardinality(combined_playlists)>>
                        ELSE <<0, 1>>
        duration_diff == Abs(self.duration - other.duration)
        duration_sim == IF duration_diff <= median_song_length
                        THEN Decay(duration_diff, median_song_length)
                        ELSE <<0, 1>>
        score_diff == Abs(self.score - other.score)
        score_sim == IF score_diff < TARGET_MEDIAN_SCORE
                     THEN Decay(score_diff, TARGET_MEDIAN_SCORE) ELSE <<0, 1>>
        overdue_diff == Abs(self.overdue - other.overdue)
        overdue_sim == IF overdue_diff <= RateScale
                       THEN Decay(overdue_diff, RateScale) ELSE <<0, 1>>
    IN  << Flag(self.album = other.album),
           Flag(self.album_artist = other.album_artist),
           Flag(self.genre = other.genre),
           year_sim,
           added_sim,
           Flag(date(self.last_played) = date(other.last_played)),
           playlist_sim,
           Flag(self.compilation = other.compilation),
           duration_sim,
           score_sim,
           overdue_sim,
           Flag(/\ islower(self.name) = islower(other.name)
                /\ isupper(self.name) = isupper(other.name)),
           Flag(self.track_number = other.track_number) >>

\* np.exp(x) for x >= 0, x and the result in 1/ScoreScale: the Taylor series,
\* summed until its terms vanish
RECURSIVE ExpTerms(_, _, _)
ExpTerms(x, term, k) ==
    IF term = 0 THEN 0
    ELSE term + ExpTerms(x, (term * x) \div (ScoreScale * k), k + 1)

Exp(x) == ExpTerms(x, ScoreScale, 1)

\* lines 169-178: the softmax-weighted mean of the feature values, as the
\* fraction <<exp_sum - min_exp_sum, max_exp_sum - min_exp_sum>>
NormalizeNoMin(vec, alpha) ==
    LET n == Len(vec)
        exps == [i \in DOMAIN vec |-> Exp((alpha * vec[i][1]) \div vec[i][2])]
    IN  <<Sum(exps), n * Exp(alpha)>>

Normalize(vec, alpha) ==
    LET n == Len(vec)
        exps == [i \in DOMAIN vec |-> Exp((alpha * vec[i][1]) \div vec[i][2])]
        exp_sum == Sum(exps)
        max_exp_sum == n * Exp(alpha)
        min_exp_sum == n * Exp(0)
    IN  <<exp_sum - min_exp_sum, max_exp_sum - min_exp_sum>>

\* the tracks similarity_to is tried on: one choice each of the text fields,
\* of the dates, of the playlists and of the numbers
SimTexts ==
    { [album |-> <<"l">>, album_artist |-> <<"x">>, genre |-> <<"r">>,
       compilation |-> FALSE, name |-> <<"s">>, track_number |-> 1],
      [album |-> <<"m">>, album_artist |-> <<"y">>, genre |-> <<"P">>,
       compilation |-> TRUE, name |-> <<"S">>, track_number |-> 2],
      [album |-> <<"l">>, album_artist |-> <<"y">>, genre |-> <<"r">>,
       compilation |-> FALSE, name |-> <<"S", "s">>, track_number |-> 1] }

SimDates ==
    { [year |-> 2000, date_added |-> NOW - ONE_YEAR,
       last_played |-> NOW - ONE_DAY],
      [year |-> 2005, date_added |-> NOW - ONE_YEAR - 6 * ONE_MONTH,
       last_played |-> NOW - ONE_DAY + ONE_HOUR],
      [year |-> 2002, date_added |-> NOW - ONE_YEAR - 2 * ONE_MONTH,
       last_played |-> NOW - 100 * ONE_YEAR],
      [year |-> 2010, date_added |-> NOW - 2 * ONE_YEAR,
       last_played |-> NOW - 2 * ONE_DAY] }

SimPlaylists == SUBSET {"p", "q"}

SimNumbers ==
    { [duration |-> MEDIAN_SONG_LENGTH, score |-> 0, overdue |-> 0],
      [duration |-> 2 * MEDIAN_SONG_LENGTH, score |-> TARGET_MEDIAN_SCORE,
       overdue |-> RateScale],
      [duration |-> MEDIAN_SONG_LENGTH + 719, score |-> ScoreScale,
       overdue |-> -(RateScale \div 2)],
      [duration |-> 3 * MEDIAN_SONG_LENGTH + 1, score |-> 2 * TARGET_MEDIAN_SCORE,
       overdue |-> 3 * RateScale] }

SimPool ==
    { [BaseTrack EXCEPT
          !.album = t.album, !.album_artist = t.album_artist,
          !.genre = t.genre, !.compilation = t.compilation, !.name = t.name,
          !.track_number = t.track_number, !.year = d.year,
          !.date_added = d.date_added, !.last_played = d.last_played,
          !.playlists = p, !.duration = n.duration, !.score = n.score,
          !.overdue = n.overdue]
      : t \in SimTexts, d \in SimDates, p \in SimPlaylists, n \in SimNumbers }

\* the values update_track_params can leave in the class variables: the
\* defaults, or a calibration from the totals of a prior run
Calibrations ==
    { [median_song_length |-> MEDIAN_SONG_LENGTH, score_base |-> DEFAULT_SCORE_BASE],
      [median_song_length |-> 3000, score_base |-> 900] }

\* self.similarity_to(other)
SimilarityTo ==
    /\ sim_out = None
    /\ sim_a # None
    /\ sim_vec' = SimVec(sim_a, sim_b)
    /\ sim_out' = Normalize(SimVec(sim_a, sim_b), score_base)
    /\ UNCHANGED <<sim_a, sim_b, classVars, shuffleVars, statsVars, apiVars, insightVars, saveVars,
                   cliVars>>

ShuffleIdle ==
    /\ downranked_artists = {} /\ downranked_genres = {}
    /\ input = <<>> /\ tracks = <<>> /\ weights = <<>> /\ total_weight = 0
    /\ shuffled = <<>> /\ pc = "off" /\ err = "" /\ rng = <<0, 0>>
    /\ stream = <<>> /\ call = 1 /\ first = <<>> /\ others = 0

(***************************************************************************)
(* Track.from_api: the metric engine.                                      *)
(***************************************************************************)
\* k.missing_value: the library has no played / skipped date for the track
\* (an instant that no date of the model takes)
missing_value == -1

\* 10000 * ln(k / RateScale) for k = 1 .. 64, rounded
LnTable ==
    << -20794, -13863, -9808, -6931, -4700, -2877, -1335, 0,
       1178, 2231, 3185, 4055, 4855, 5596, 6286, 6931,
       7538, 8109, 8650, 9163, 9651, 10116, 10561, 10986,
       11394, 11787, 12164, 12528, 12879, 13218, 13545, 13863,
       14171, 14469, 14759, 15041, 15315, 15581, 15841, 16094,
       16341, 16582, 16818, 17047, 17272, 17492, 17707, 17918,
       18124, 18326, 18524, 18718, 18909, 19095, 19279, 19459,
       19636, 19810, 19981, 20149, 20314, 20477, 20637, 20794 >>

\* math.log(x) of a positive x counted in 1/ScoreScale, in 1/10000: read off
\* the table for a multiple of 1/RateScale, and given for the two score bases
Ln(x) ==
    LET unit == ScoreScale \div RateScale
    IN  IF x % unit = 0 THEN LnTable[x \div unit]
        ELSE CASE x = DEFAULT_SCORE_BASE -> 4644
               [] x = 900 -> -1054

\* math.log(x, base) = log(x) / log(base), in 1/ScoreScale
Log(x, base) == FloorDiv(Ln(x) * ScoreScale, Ln(base))

\* the record the library gives for one track: the api object's answers
BaseApi ==
    [ name |-> <<"s">>, artist |-> <<"x">>, album |-> <<"l">>,
      album_artist |-> <<"x">>, genre |-> <<"r">>, year |-> 2000,
      track_number |-> 1, played_count |-> 0, skipped_count |-> 0,
      duration |-> MEDIAN_SONG_LENGTH, date_added |-> NOW - ONE_YEAR,
      rating |-> 0, database_ID |-> 1, compilation |-> FALSE,
      favorited |-> FALSE, disliked |-> FALSE,
      played_date |-> missing_value, skipped_date |-> missing_value,
      playlists |-> {} ]

\* lines 214-228: net_rate, in 1/RateScale.
\*   (play_rate + norm_listen_rate - skip_rate) / 2
\*     = (plays * (median + duration) - skips * median) / (2 * median * years)
NetRate(play_count, skip_count, duration, duration_since_added) ==
    LET counted == play_count * (median_song_length + duration)
                       - skip_count * median_song_length
        per_age == FloorDiv(counted * (RateScale \div 2), median_song_length)
    IN  FloorDiv(per_age * ONE_YEAR, duration_since_added)

\* lines 229-234: overdue, in 1/RateScale.
\*   overdue_duration / time_between_plays
\*     = duration_since_last_interaction / time_between_plays - 1
Overdue(net_rate, duration_since_last_interaction) ==
    IF net_rate > 0
    THEN FloorDiv(duration_since_last_interaction * net_rate, ONE_YEAR) - RateScale
    ELSE FloorDiv(duration_since_last_interaction * RateScale, 100 * ONE_YEAR)
             - RateScale

\* Track.from_api (lines 184-280)
FromApi(api) ==
    LET last_played == IF api.played_date = missing_value
                       THEN NOW - 100 * ONE_YEAR ELSE api.played_date
        last_skipped == IF api.skipped_date = missing_value
                        THEN NOW - 100 * ONE_YEAR ELSE api.skipped_date
        duration_since_last_played == NOW - last_played
        duration_since_last_skipped == NOW - last_skipped
        duration_since_added == NOW - api.date_added
        duration_since_last_interaction ==
            IF duration_since_last_played <= duration_since_last_skipped
            THEN duration_since_last_played ELSE duration_since_last_skipped
        net_rate == NetRate(api.played_count, api.skipped_count, api.duration,
                            duration_since_added)
        overdue == Overdue(net_rate, duration_since_last_interaction)
        one_plus == (RateScale + net_rate) * (ScoreScale \div RateScale)
    IN  IF duration_since_added = 0
        THEN Raised("ZeroDivisionError")   \* play_count / years_since_added
        ELSE IF one_plus <= 0
        THEN Raised("ValueError")          \* math.log of a number <= 0
        ELSE [ kind |-> "Track",
               track |->
                 [ name |-> api.name, track_artist |-> api.artist,
                   album |-> api.album, album_artist |-> api.album_artist,
                   genre |-> api.genre, year |-> api.year,
                   track_number |-> api.track_number,
                   play_count |-> api.played_count,
                   skip_count |-> api.skipped_count,
                   duration |-> api.duration, date_added |-> api.date_added,
                   rating |-> api.rating, dbid |-> api.database_ID,
                   compilation |-> api.compilation,
                   favorite |-> api.favorited, disliked |-> api.disliked,
                   last_played |-> last_played, last_skipped |-> last_skipped,
                   net_rate |-> net_rate,
                   score |-> Log(one_plus, score_base), overdue |-> overdue,
                   playlists |-> api.playlists ] ]

\* the library records from_api is tried on
ApiPool ==
    { [BaseApi EXCEPT !.played_count = p, !.skipped_count = k,
                      !.duration = d, !.date_added = NOW - age,
                      !.played_date = lp]
      : p \in 0..MaxCount, k \in 0..MaxCount,
        d \in {MEDIAN_SONG_LENGTH, 2 * MEDIAN_SONG_LENGTH},
        age \in {-2 * ONE_YEAR, 0, ONE_YEAR, 4 * ONE_YEAR},
        lp \in {missing_value, NOW - ONE_MONTH} }

\* Track.from_api(api) on the next record
FromApiCall ==
    /\ Len(api_out) < Len(api_in)
    /\ api_out' = Append(api_out, FromApi(api_in[Len(api_out) + 1]))
    /\ UNCHANGED <<api_in, classVars, shuffleVars, statsVars, simVars, cliVars,
                   insightVars, saveVars>>

ApiIdle == api_in = <<>> /\ api_out = <<>>

(***************************************************************************)
(* update.py: the update command, and the functions of music.py it calls.  *)
(***************************************************************************)
\* the playlists the configuration names
SourcePlaylist == "Source"
OtherPlaylist == "Other"
ShuffleName == "Shuffle"
OverdueName == "Overdue"

\* Config (music.py), as cli() has it after the command-line flags are applied
\* (update.py:57-63).  top_percent 0 and update_every 0 stand for None.
UpdateConfigs ==
    { [ active |-> a,
        sync_enabled |-> FALSE, iphone_name |-> "phone",
        album_ratings_clear |-> c, track_ratings_update |-> r,
        favorites_update |-> f, top_percent |-> 50,
        overdue_enabled |-> o, overdue_parent |-> None,
        overdue_save_tracks |-> TRUE,
        shuffle_enabled |-> sh, shuffle_parent |-> None,
        shuffle_save_tracks |-> TRUE,
        downranked |-> [artists |-> {<<"B">>}, genres |-> {}],
        force_update |-> FALSE, remove_only |-> TRUE, update_every |-> 0,
        stats |-> st ]
      : a \in BOOLEAN, c \in BOOLEAN, r \in BOOLEAN, f \in BOOLEAN,
        o \in BOOLEAN, sh \in BOOLEAN,
        st \in { << [name |-> SourcePlaylist, save_totals |-> TRUE,
                     save_tracks |-> TRUE, save_collections |-> TRUE] >>,
                 << [name |-> SourcePlaylist, save_totals |-> FALSE,
                     save_tracks |-> TRUE, save_collections |-> FALSE],
                    [name |-> OtherPlaylist, save_totals |-> TRUE,
                     save_tracks |-> FALSE, save_collections |-> FALSE] >> } }

\* the tracks of the host library, by database ID: one played a month ago, one
\* played after NOW was taken, one added at the very instant NOW, one added a
\* year ago and never played
LibTracks ==
    << [BaseApi EXCEPT !.database_ID = 1, !.played_count = 1,
                       !.played_date = NOW - ONE_MONTH],
       [BaseApi EXCEPT !.database_ID = 2, !.played_count = 2,
                       !.artist = <<"A", "b">>,
                       !.played_date = NOW + ONE_HOUR],
       [BaseApi EXCEPT !.database_ID = 3, !.date_added = NOW],
       [BaseApi EXCEPT !.database_ID = 4] >>

\* out.sort(key=lambda x: x.score, reverse=True), and sorted(..., reverse=True):
\* a stable sort of object ids by descending key
RECURSIVE SortDesc(_, _)
SortDesc(ids, key) ==
    IF ids = <<>> THEN <<>>
    ELSE LET m == MaxOf({ key[ids[j]] : j \in DOMAIN ids })
             i == MinOf({ j \in DOMAIN ids : key[ids[j]] = m })
         IN  <<ids[i]>> \o SortDesc(RemoveAt(ids, i), key)

\* PlaylistLoader.load(playlist_name).  Track objects live in heap; a list of
\* tracks is a sequence of positions in heap.
Load(playlist_name) ==
    IF playlist_name \in DOMAIN tracks_by_playlist
    THEN [kind |-> "loaded", tracks |-> tracks_by_playlist[playlist_name],
          heap |-> heap, by_dbid |-> tracks_by_dbid,
          by_playlist |-> tracks_by_playlist]
    ELSE IF playlist_name \notin DOMAIN library.playlists
    THEN Raised("ValueError")
    ELSE LET dbids == library.playlists[playlist_name]
             Cached(d) == d \in DOMAIN tracks_by_dbid
             Fresh(d) == d \notin DOMAIN tracks_by_dbid
             cached == SelectSeq(dbids, Cached)
             tracks_to_process == SelectSeq(dbids, Fresh)
             made == [i \in DOMAIN tracks_to_process |->
                         FromApi(library.tracks[tracks_to_process[i]])]
             failed == { i \in DOMAIN made : made[i].kind = "raised" }
             new_heap == heap \o [i \in DOMAIN made |-> made[i].track]
             new_id(i) == Len(heap) + i
             \* a later object of the same dbid replaces the earlier one
             last(d) == MaxOf({ i \in DOMAIN tracks_to_process :
                                   tracks_to_process[i] = d })
             new_by_dbid ==
                 [ d \in DOMAIN tracks_by_dbid \cup Range(tracks_to_process) |->
                     IF d \in Range(tracks_to_process) THEN new_id(last(d))
                     ELSE tracks_by_dbid[d] ]
             out == [i \in DOMAIN cached |-> tracks_by_dbid[cached[i]]]
                        \o [i \in DOMAIN made |-> new_id(i)]
             sorted == SortDesc(out, [id \in DOMAIN new_heap |->
                                          new_heap[id].score])
         IN  IF failed # {} THEN made[MinOf(failed)]
             ELSE [kind |-> "loaded", tracks |-> sorted, heap |-> new_heap,
                   by_dbid |-> new_by_dbid,
                   by_playlist |->
                       [ nm \in DOMAIN tracks_by_playlist \cup {playlist_name} |->
                           IF nm = playlist_name THEN sorted
                           ELSE tracks_by_playlist[nm] ]]

\* the run ends with an exception raised in the named call
Abort(where, e) ==
    /\ step' = "aborted"
    /\ abort' = [in |-> where, error |-> e]

\* update.py:70-76: sync the device first
SyncDevice ==
    /\ step = "sync"
    /\ IF cfg.active /\ cfg.sync_enabled
       THEN IF cfg.iphone_name = ""
            THEN Abort("cli", "AssertionError") /\ UNCHANGED written
            ELSE \E ok \in BOOLEAN :      \* what sync_device returns
                    /\ written' = written \cup {"sync"}
                    /\ IF ok THEN step' = "params" /\ UNCHANGED abort
                       ELSE Abort("cli", "AssertionError")
       ELSE step' = "params" /\ UNCHANGED <<abort, written>>
    /\ UNCHANGED <<cfg, calls, library, files, heap, tracks_by_dbid, tracks_by_playlist,
                   source_tracks, playlist_map, stat_i, classVars, shuffleVars,
                   statsVars, simVars, apiVars, insightVars, saveVars>>

\* update_track_params (music.py:813-844), called at update.py:81
UpdateTrackParams ==
    /\ step = "params"
    /\ downranked_artists' = { casefold(x) : x \in cfg.downranked.artists }
    /\ downranked_genres' = { casefold(x) : x \in cfg.downranked.genres }
    /\ IF files.totals # None
       THEN /\ median_song_length' = files.totals.median_song_length
            /\ score_base' = files.totals.score_base
       ELSE UNCHANGED <<median_song_length, score_base>>
    /\ step' = "clear"
    /\ UNCHANGED <<cfg, calls, library, files, abort, written, heap, tracks_by_dbid,
                   tracks_by_playlist, source_tracks, playlist_map, stat_i,
                   input, tracks, weights, total_weight, shuffled, pc, err, rng,
                   stream, call, first, others, statsVars, simVars, apiVars, insightVars, saveVars>>

\* update.py:83-87: album ratings are removed from the library
ClearAlbumRatings ==
    /\ step = "clear"
    /\ IF cfg.active /\ cfg.album_ratings_clear
       THEN /\ written' = written \cup {"album_rating"}
            /\ library' = [library EXCEPT !.album_ratings = {}]
       ELSE UNCHANGED <<written, library>>
    /\ step' = "load_source"
    /\ UNCHANGED <<cfg, calls, files, abort, heap, tracks_by_dbid, tracks_by_playlist,
                   source_tracks, playlist_map, stat_i, classVars, shuffleVars,
                   statsVars, simVars, apiVars, insightVars, saveVars>>

\* update.py:90-92: source_tracks = playlist_loader.load(source_playlist)
LoadSource ==
    /\ step = "load_source"
    /\ LET l == Load(SourcePlaylist)
       IN  IF l.kind = "raised"
           THEN /\ Abort("load", l.error)
                /\ UNCHANGED <<heap, tracks_by_dbid, tracks_by_playlist,
                               source_tracks>>
           ELSE /\ heap' = l.heap
                /\ tracks_by_dbid' = l.by_dbid
                /\ tracks_by_playlist' = l.by_playlist
                /\ source_tracks' = l.tracks
                /\ step' = "ratings"
                /\ UNCHANGED abort
    /\ UNCHANGED <<cfg, calls, library, files, written, playlist_map, stat_i, classVars,
                   shuffleVars, statsVars, simVars, apiVars, insightVars, saveVars>>

\* the rating that counts the bins from the track's own end of its bin
RatingAtBinEnd(i, n, play_count) ==
    LET num_bins == IF n < 100 THEN n ELSE 100
    IN  IF play_count > 0 THEN 100 - (((i + 1) * num_bins) \div n) ELSE 0

\* the rating update_track_ratings gives the track at index i (from 0) of n
RatingAt(i, n, play_count) ==
    LET num_bins == IF n < 100 THEN n ELSE 100
    IN  IF play_count > 0 THEN 100 - ((i * num_bins) \div n) ELSE 0

\* ratings that reach the library whenever track_ratings.update is set
RatingsActiveAlways == cfg.track_ratings_update

\* update.py:95: active=active and config.track_ratings.update
RatingsActive == cfg.active /\ cfg.track_ratings_update

\* update_track_ratings(source_tracks, active=...) (music.py:847-858) with
\* Track.set_rating (music.py:373-378), called at update.py:95
UpdateTrackRatings ==
    /\ step = "ratings"
    /\ LET n == Len(source_tracks)
           active == RatingsActive
           at(id) == MaxOf({ i \in 1..n : source_tracks[i] = id })
           rating(id) == RatingAt(at(id) - 1, n, heap[id].play_count)
       IN  IF ~(n > 0)
           THEN /\ Abort("update_track_ratings", "AssertionError")
                /\ UNCHANGED <<heap, library, written>>
           ELSE /\ heap' = [id \in DOMAIN heap |->
                               IF id \in Range(source_tracks)
                               THEN [heap[id] EXCEPT !.rating = rating(id)]
                               ELSE heap[id]]
                /\ IF active
                   THEN /\ written' = written \cup {"rating"}
                        /\ library' =
                             [library EXCEPT !.tracks =
                                [d \in DOMAIN library.tracks |->
                                   IF \E id \in Range(source_tracks) :
                                         heap[id].dbid = d
                                   THEN [library.tracks[d] EXCEPT !.rating =
                                           rating(MaxOf({ id \in Range(source_tracks) :
                                                            heap[id].dbid = d }))]
                                   ELSE library.tracks[d]]]
                   ELSE UNCHANGED <<written, library>>
                /\ step' = "favorites"
                /\ UNCHANGED abort
    /\ UNCHANGED <<cfg, calls, files, tracks_by_dbid, tracks_by_playlist, source_tracks,
                   playlist_map, stat_i, classVars, shuffleVars, statsVars,
                   simVars, apiVars, insightVars, saveVars>>

\* update.py:100-105: update_favorites takes fav_percent and active by keyword
\* only (music.py:861) and is called with two positional arguments
UpdateFavorites ==
    /\ step = "favorites"
    /\ IF cfg.active /\ cfg.favorites_update
       THEN IF cfg.top_percent = 0
            THEN Abort("cli", "AssertionError")
            ELSE Abort("update_favorites", "TypeError")
       ELSE step' = "overdue" /\ UNCHANGED abort
    /\ UNCHANGED <<cfg, calls, library, files, written, heap, tracks_by_dbid,
                   tracks_by_playlist, source_tracks, playlist_map, stat_i,
                   classVars, shuffleVars, statsVars, simVars, apiVars, insightVars, saveVars>>

\* update.py:110-124: the overdue playlist
OverduePlaylist ==
    /\ step = "overdue"
    /\ IF cfg.overdue_enabled
       THEN LET l == IF cfg.overdue_parent # None THEN Load(cfg.overdue_parent)
                     ELSE [kind |-> "loaded", tracks |-> source_tracks,
                           heap |-> heap, by_dbid |-> tracks_by_dbid,
                           by_playlist |-> tracks_by_playlist]
            IN  IF l.kind = "raised"
                THEN /\ Abort("load", l.error)
                     /\ UNCHANGED <<heap, tracks_by_dbid, tracks_by_playlist,
                                    playlist_map>>
                ELSE LET IsOverdue(id) == l.heap[id].overdue > 0
                         key == [id \in DOMAIN l.heap |-> l.heap[id].overdue]
                     IN  /\ heap' = l.heap
                         /\ tracks_by_dbid' = l.by_dbid
                         /\ tracks_by_playlist' = l.by_playlist
                         /\ playlist_map' =
                              Append(playlist_map,
                                     [name |-> OverdueName,
                                      tracks |-> SortDesc(SelectSeq(l.tracks, IsOverdue),
                                                          key)])
                         /\ step' = "shuffle"
                         /\ UNCHANGED abort
       ELSE /\ step' = "shuffle"
            /\ UNCHANGED <<abort, heap, tracks_by_dbid, tracks_by_playlist,
                           playlist_map>>
    /\ UNCHANGED <<cfg, calls, library, files, written, source_tracks, stat_i, classVars,
                   shuffleVars, statsVars, simVars, apiVars, insightVars, saveVars>>

\* the list weighted_shuffle is called on (update.py:131-135)
ShuffleParentTracks ==
    IF cfg.shuffle_parent # None THEN tracks_by_playlist[cfg.shuffle_parent]
    ELSE source_tracks

\* update.py:126-138: the parent playlist is loaded and weighted_shuffle called
ShufflePlaylist ==
    /\ step = "shuffle"
    /\ IF cfg.shuffle_enabled
       THEN LET l == IF cfg.shuffle_parent # None THEN Load(cfg.shuffle_parent)
                     ELSE [kind |-> "loaded", tracks |-> source_tracks,
                           heap |-> heap, by_dbid |-> tracks_by_dbid,
                           by_playlist |-> tracks_by_playlist]
            IN  IF l.kind = "raised"
                THEN /\ Abort("load", l.error)
                     /\ UNCHANGED <<heap, tracks_by_dbid, tracks_by_playlist,
                                    input, pc>>
                ELSE /\ heap' = l.heap
                     /\ tracks_by_dbid' = l.by_dbid
                     /\ tracks_by_playlist' = l.by_playlist
                     /\ input' = [i \in DOMAIN l.tracks |-> l.heap[l.tracks[i]]]
                     /\ pc' = "idle"
                     /\ step' = "shuffling"
                     /\ UNCHANGED abort
       ELSE /\ step' = "playlists"
            /\ UNCHANGED <<abort, heap, tracks_by_dbid, tracks_by_playlist,
                           input, pc>>
    /\ UNCHANGED <<cfg, calls, library, files, written, source_tracks, playlist_map,
                   stat_i, classVars, downranked_artists, downranked_genres,
                   tracks, weights, total_weight, shuffled, err, rng, stream,
                   call, first, others, statsVars, simVars, apiVars, insightVars, saveVars>>

\* update.py:136: weighted_shuffle has returned its list
ShuffleReturned ==
    /\ step = "shuffling"
    /\ pc = "returned"
    /\ playlist_map' =
         Append(playlist_map,
                [name |-> ShuffleName,
                 tracks |-> [i \in DOMAIN shuffled |->
                                 ShuffleParentTracks[shuffled[i]]]])
    /\ pc' = "off"
    /\ step' = "playlists"
    /\ UNCHANGED <<cfg, calls, library, files, abort, written, heap, tracks_by_dbid,
                   tracks_by_playlist, source_tracks, stat_i, classVars,
                   downranked_artists, downranked_genres, input, tracks, weights,
                   total_weight, shuffled, err, rng, stream, call, first, others,
                   statsVars, simVars, apiVars, insightVars, saveVars>>

\* update.py:136: weighted_shuffle has raised
ShuffleRaised ==
    /\ step = "shuffling"
    /\ pc = "raised"
    /\ Abort("weighted_shuffle", err)
    /\ pc' = "off"
    /\ UNCHANGED <<cfg, calls, library, files, written, heap, tracks_by_dbid,
                   tracks_by_playlist, source_tracks, playlist_map, stat_i,
                   classVars, downranked_artists, downranked_genres, input,
                   tracks, weights, total_weight, shuffled, err, rng, stream,
                   call, first, others, statsVars, simVars, apiVars, insightVars, saveVars>>

\* the test that measures the sentinel's age also when update_every is not set
PlaylistOverdueAlwaysTimed(playlist_name, sentinels) ==
    IF playlist_name \notin DOMAIN sentinels THEN TRUE
    ELSE sentinels[playlist_name] > cfg.update_every

\* update.py:142-153: is the generated playlist due for an update
PlaylistOverdue(playlist_name, sentinels) ==
    IF playlist_name \notin DOMAIN sentinels THEN TRUE
    ELSE IF cfg.update_every # 0
    THEN sentinels[playlist_name] > cfg.update_every
    ELSE FALSE

\* update_playlist (music.py:981-998): the calls it makes on the library
UpdatePlaylistCalls(nm, dbids, exists) ==
    (IF exists THEN <<>> ELSE << <<"make", nm>> >>)
        \o << <<"clear", nm>> >>
        \o [i \in DOMAIN dbids |-> <<"add", nm, dbids[i]>>]

\* remove_unsynced_tracks (music.py:1001-1016): the calls it makes on the
\* library for a playlist that exists
RemoveUnsyncedCalls(nm, old, synced) ==
    LET Unsynced(d) == d \notin synced
        unsynced_tracks == SelectSeq(old, Unsynced)
    IN  [i \in DOMAIN unsynced_tracks |-> <<"delete", nm, unsynced_tracks[i]>>]

\* update.py:156-168 for the first k generated playlists: the library's
\* playlists, the sentinel files, the kinds of write made and the calls
RECURSIVE PlaylistsAfter(_)
PlaylistsAfter(k) ==
    IF k = 0
    THEN [playlists |-> library.playlists, sentinels |-> files.sentinels,
          written |-> written, calls |-> calls]
    ELSE LET before == PlaylistsAfter(k - 1)
             nm == playlist_map[k].name
             ids == playlist_map[k].tracks
             dbids == [i \in DOMAIN ids |-> heap[ids[i]].dbid]
             Synced(d) == d \in Range(dbids)
         IN  IF ~cfg.active THEN before
             ELSE IF cfg.force_update \/ PlaylistOverdue(nm, before.sentinels)
             THEN \* update_playlist (music.py:981-998), then the sentinel
                  [playlists |->
                      [p \in DOMAIN before.playlists \cup {nm} |->
                          IF p = nm THEN dbids ELSE before.playlists[p]],
                   sentinels |->
                      [p \in DOMAIN before.sentinels \cup {nm} |->
                          IF p = nm THEN 0 ELSE before.sentinels[p]],
                   written |-> before.written \cup {"playlist", "sentinel"},
                   calls |-> before.calls
                               \o UpdatePlaylistCalls(nm, dbids,
                                      nm \in DOMAIN before.playlists)
                               \o << <<"touch", nm>> >>]
             ELSE IF cfg.remove_only /\ nm \in DOMAIN before.playlists
             THEN \* remove_unsynced_tracks (music.py:1001-1016)
                  [playlists |->
                      [before.playlists EXCEPT
                          ![nm] = SelectSeq(before.playlists[nm], Synced)],
                   sentinels |-> before.sentinels,
                   written |->
                      IF SelectSeq(before.playlists[nm], Synced)
                             # before.playlists[nm]
                      THEN before.written \cup {"playlist"}
                      ELSE before.written,
                   calls |-> before.calls
                               \o RemoveUnsyncedCalls(nm, before.playlists[nm],
                                                      Range(dbids))]
             ELSE before

\* update.py:140-170: the generated playlists are written to the library
UpdatePlaylists ==
    /\ step = "playlists"
    /\ LET after == PlaylistsAfter(Len(playlist_map))
       IN  /\ library' = [library EXCEPT !.playlists = after.playlists]
           /\ files' = [files EXCEPT !.sentinels = after.sentinels]
           /\ written' = after.written
           /\ calls' = after.calls
    /\ step' = "stats"
    /\ stat_i' = 1
    /\ UNCHANGED <<cfg, abort, heap, tracks_by_dbid, tracks_by_playlist,
                   source_tracks, playlist_map, classVars, shuffleVars,
                   statsVars, simVars, apiVars, insightVars, saveVars>>

\* update.py:174-189 for one stats playlist: it is loaded, then save_total_stats
\* (music.py:1090-1104), save_track_data (music.py:1019-1031) and
\* save_collection_stats (music.py:1034-1087) write their files
SaveStats ==
    /\ step = "stats"
    /\ stat_i <= Len(cfg.stats)
    /\ LET stat_playlist == cfg.stats[stat_i]
           l == Load(stat_playlist.name)
       IN  IF l.kind = "raised"
           THEN /\ Abort("load", l.error)
                /\ UNCHANGED <<heap, tracks_by_dbid, tracks_by_playlist, files,
                               written, stat_i>>
           ELSE \E asc \in BOOLEAN :
                LET ts == [i \in DOMAIN l.tracks |-> l.heap[l.tracks[i]]]
                    source == TrackCollection(ts, asc)
                    totals == IF stat_playlist.save_totals
                              THEN {<<stat_playlist.name, "totals">>} ELSE {}
                    rest ==
                        (IF stat_playlist.save_tracks
                         THEN {<<stat_playlist.name, "tracks">>} ELSE {})
                        \cup
                        (IF stat_playlist.save_collections /\ ts # <<>>
                         THEN {<<stat_playlist.name, "collections">>} ELSE {})
                IN  /\ heap' = l.heap
                    /\ tracks_by_dbid' = l.by_dbid
                    /\ tracks_by_playlist' = l.by_playlist
                    /\ IF stat_playlist.save_totals /\ source.kind = "raised"
                       THEN /\ Abort("TrackCollection", source.error)
                            /\ UNCHANGED <<files, written, stat_i>>
                       ELSE /\ files' = [files EXCEPT !.snapshots =
                                            @ \cup totals \cup rest]
                            /\ written' = IF totals \cup rest # {}
                                          THEN written \cup {"snapshot"}
                                          ELSE written
                            /\ stat_i' = stat_i + 1
                            /\ UNCHANGED <<step, abort>>
    /\ UNCHANGED <<cfg, calls, library, source_tracks, playlist_map, classVars,
                   shuffleVars, statsVars, simVars, apiVars, insightVars, saveVars>>

\* update.py:190-209: the generated playlists' tracks are saved
SaveGenerated ==
    /\ step = "stats"
    /\ stat_i > Len(cfg.stats)
    /\ LET saved ==
             (IF cfg.shuffle_enabled /\ cfg.shuffle_save_tracks
              THEN {<<ShuffleName, "tracks">>} ELSE {})
             \cup
             (IF cfg.overdue_enabled /\ cfg.overdue_save_tracks
              THEN {<<OverdueName, "tracks">>} ELSE {})
       IN  /\ files' = [files EXCEPT !.snapshots = @ \cup saved]
           /\ written' = IF saved # {} THEN written \cup {"snapshot"}
                         ELSE written
    /\ step' = "final_sync"
    /\ UNCHANGED <<cfg, calls, library, abort, heap, tracks_by_dbid, tracks_by_playlist,
                   source_tracks, playlist_map, stat_i, classVars, shuffleVars,
                   statsVars, simVars, apiVars, insightVars, saveVars>>

\* update.py:213-218: the device is synced again; cli() returns
FinalSync ==
    /\ step = "final_sync"
    /\ IF cfg.active /\ cfg.sync_enabled
       THEN IF cfg.iphone_name = ""
            THEN Abort("cli", "AssertionError") /\ UNCHANGED written
            ELSE /\ written' = written \cup {"sync"}
                 /\ step' = "done"
                 /\ UNCHANGED abort
       ELSE step' = "done" /\ UNCHANGED <<abort, written>>
    /\ UNCHANGED <<cfg, calls, library, files, heap, tracks_by_dbid, tracks_by_playlist,
                   source_tracks, playlist_map, stat_i, classVars, shuffleVars,
                   statsVars, simVars, apiVars, insightVars, saveVars>>

\* the update command is not running
CliIdle ==
    /\ cfg = None /\ library = None /\ files = None /\ step = "off"
    /\ abort = None /\ written = {} /\ heap = <<>> /\ tracks_by_dbid = <<>>
    /\ tracks_by_playlist = <<>> /\ source_tracks = <<>>
    /\ playlist_map = <<>> /\ stat_i = 0 /\ calls = <<>>

(***************************************************************************)
(* insights.py: the mixtape, with filter_unique_track_numbers and          *)
(* filter_duration of music.py.  Durations are counted in tenths of a      *)
(* second.  A list of tracks is a sequence of positions in the argument.   *)
(***************************************************************************)
ONE_MIN == 600

\* dt.timedelta(minutes=45), the budget mixtape passes to filter_duration
MixtapeBudget == 45 * ONE_MIN

\* filter_unique_track_numbers that remembers the last track number only
filter_unique_adjacent(ts, ids) ==
    LET Kept(k) == k = 1 \/ ts[ids[k]].track_number # ts[ids[k - 1]].track_number
    IN  [j \in 1..Cardinality({ k \in DOMAIN ids : Kept(k) }) |->
            ids[CHOOSE k \in DOMAIN ids :
                    Kept(k) /\ Cardinality({ h \in 1..k : Kept(h) }) = j]]

\* filter_unique_track_numbers(tracks) (music.py:1370-1377)
filter_unique_track_numbers(ts, ids) ==
    LET loop[k \in 0..Len(ids)] ==
            IF k = 0 THEN [filtered |-> <<>>, track_numbers |-> {}]
            ELSE LET sofar == loop[k - 1]
                     track == ts[ids[k]]
                 IN  IF track.track_number \notin sofar.track_numbers
                     THEN [filtered |-> Append(sofar.filtered, ids[k]),
                           track_numbers |->
                               sofar.track_numbers \cup {track.track_number}]
                     ELSE sofar
    IN  loop[Len(ids)].filtered

\* filter_duration that measures the budget against the track alone
filter_duration_each(ts, ids, duration) ==
    LET Fits(id) == ts[id].duration <= duration
    IN  SelectSeq(ids, Fits)

\* filter_duration that ends the scan at the first track that does not fit
filter_duration_break(ts, ids, duration) ==
    LET loop[k \in 0..Len(ids)] ==
            IF k = 0 THEN [filtered |-> <<>>, length |-> 0, open |-> TRUE]
            ELSE LET sofar == loop[k - 1]
                     track == ts[ids[k]]
                 IN  IF sofar.open /\ sofar.length + track.duration <= duration
                     THEN [filtered |-> Append(sofar.filtered, ids[k]),
                           length |-> sofar.length + track.duration,
                           open |-> TRUE]
                     ELSE [sofar EXCEPT !.open = FALSE]
    IN  loop[Len(ids)].filtered

\* filter_duration(tracks, duration) (music.py:1360-1367)
filter_duration(ts, ids, duration) ==
    LET loop[k \in 0..Len(ids)] ==
            IF k = 0 THEN [filtered |-> <<>>, length |-> 0]
            ELSE LET sofar == loop[k - 1]
                     track == ts[ids[k]]
                 IN  IF sofar.length + track.duration <= duration
                     THEN [filtered |-> Append(sofar.filtered, ids[k]),
                           length |-> sofar.length + track.duration]
                     ELSE sofar
    IN  loop[Len(ids)].filtered

\* list.sort(key=...): a stable sort of positions by ascending key
RECURSIVE SortAsc(_, _)
SortAsc(ids, key) ==
    IF ids = <<>> THEN <<>>
    ELSE LET least == MinOf({ key[ids[j]] : j \in DOMAIN ids })
             i == MinOf({ j \in DOMAIN ids : key[ids[j]] = least })
         IN  <<ids[i]>> \o SortAsc(RemoveAt(ids, i), key)

\* insights.py:216-222: the tracks neither skipped in the last month nor
\* played in the last three days
Master(ts) ==
    LET Rested(i) == /\ NOW - ts[i].last_skipped > ONE_MONTH
                     /\ NOW - ts[i].last_played > 3 * ONE_DAY
    IN  SelectSeq([i \in DOMAIN ts |-> i], Rested)

\* insights.py:223-225: the main sequence before it is sorted
MainOf(ts) ==
    LET Numbered(i) == ts[i].track_number # 0
    IN  filter_duration(ts,
            filter_unique_track_numbers(ts, SelectSeq(Master(ts), Numbered)),
            MixtapeBudget)

\* s[:1]
Head1(s) == IF s = <<>> THEN <<>> ELSE <<s[1]>>

\* mixtape that puts the bonus track first
mixtape_bonus_first(ts) ==
    LET Bonus(i) == ts[i].track_number = 0
        zeros == SelectSeq(Master(ts), Bonus)
        key == [i \in DOMAIN ts |-> ts[i].track_number]
    IN  IF MainOf(ts) # <<>>
        THEN [kind |-> "written",
              tracks |-> Head1(zeros) \o SortAsc(MainOf(ts), key)]
        ELSE [kind |-> "nothing"]

\* mixtape(tracks) (insights.py:207-236): the tracks of the lines it writes
mixtape(ts) ==
    LET Bonus(i) == ts[i].track_number = 0
        zeros == SelectSeq(Master(ts), Bonus)
        key == [i \in DOMAIN ts |-> ts[i].track_number]
    IN  IF MainOf(ts) # <<>>
        THEN [kind |-> "written",
              tracks |-> SortAsc(MainOf(ts), key) \o Head1(zeros)]
        ELSE [kind |-> "nothing"]

\* the tracks the mixtape is tried on: track numbers 0 to 3, three lengths,
\* and two tracks heard too recently
MixPool ==
    { [BaseTrack EXCEPT !.track_number = tn, !.duration = d,
                        !.last_played = NOW - ONE_MONTH]
      : tn \in 0..3, d \in {10 * ONE_MIN, 20 * ONE_MIN, 30 * ONE_MIN} }
    \cup
    { [BaseTrack EXCEPT !.track_number = 0, !.last_played = NOW - ONE_DAY],
      [BaseTrack EXCEPT !.track_number = 1, !.last_played = NOW - ONE_MONTH,
                        !.last_skipped = NOW - ONE_DAY] }

\* the budgets filter_duration is tried with
Budgets == {0, 30 * ONE_MIN, MixtapeBudget}

\* filter_unique_track_numbers(tracks) on the whole list
FilterUnique ==
    /\ fu_out = None
    /\ fu_out' = [kind |-> "returned",
                  tracks |-> filter_unique_track_numbers(
                                 mix_tracks, [i \in DOMAIN mix_tracks |-> i])]
    /\ UNCHANGED <<mix_tracks, mix_budget, fd_out, mix_out, classVars,
                   shuffleVars, statsVars, simVars, apiVars, cliVars, saveVars,
                   meanderVars>>

\* filter_duration(tracks, budget) on the whole list
FilterDuration ==
    /\ fu_out.kind = "returned" /\ fd_out = None
    /\ fd_out' = [kind |-> "returned",
                  tracks |-> filter_duration(mix_tracks,
                                             [i \in DOMAIN mix_tracks |-> i],
                                             mix_budget)]
    /\ UNCHANGED <<mix_tracks, mix_budget, fu_out, mix_out, classVars,
                   shuffleVars, statsVars, simVars, apiVars, cliVars, saveVars,
                   meanderVars>>

\* mixtape(tracks)
Mixtape ==
    /\ fd_out.kind = "returned" /\ mix_out = None
    /\ mix_out' = mixtape(mix_tracks)
    /\ UNCHANGED <<mix_tracks, mix_budget, fu_out, fd_out, classVars,
                   shuffleVars, statsVars, simVars, apiVars, cliVars, saveVars,
                   meanderVars>>

MixIdle ==
    /\ mix_tracks = <<>> /\ mix_budget = 0 /\ fu_out = Off /\ fd_out = Off
    /\ mix_out = Off

(***************************************************************************)
(* insights.py: meander.  A track of the argument is named by its position *)
(* in it; list.remove takes out the first element equal to the one given.  *)
(***************************************************************************)
MAX_LINES == 15

recent_cutoff == 5

\* the loop of meander that runs once too often
MeanderStepsOneMore == MAX_LINES

\* range(meander_len - 1): the iterations of the loop (insights.py:300)
MeanderSteps == MAX_LINES - 1

\* list.remove(x): without the first element equal to x
RemoveEqual(ts, ids, x) ==
    RemoveAt(ids, MinOf({ j \in DOMAIN ids : ts[ids[j]] = ts[x] }))

\* the tracks that differ from the last accepted track alone
PossibleLastOnly(ts, rem, albums, album_artists, track_artists) ==
    LET Allowed(x) ==
            /\ ts[x].album # albums[Len(albums)]
            /\ ts[x].album_artist # album_artists[Len(album_artists)]
            /\ ts[x].track_artist # track_artists[Len(track_artists)]
    IN  SelectSeq(rem, Allowed)

\* insights.py:303-313: the remaining tracks that pass the exclusion rule
Possible(ts, rem, albums, album_artists, track_artists) ==
    LET Allowed(x) ==
            /\ ts[x].album \notin Range(albums)
            /\ ts[x].album_artist \notin Range(album_artists)
            /\ ts[x].track_artist \notin Range(track_artists)
    IN  SelectSeq(rem, Allowed)

\* sim_key(x) = x.similarity_to(previous): the numerator of the fraction
\* (the denominator is the same for every pair)
sim_key(ts, x, prev) == Normalize(SimVec(ts[x], ts[prev]), score_base)[1]

\* the first of the tracks most similar to the track the chain started with
MaxBySimToStart(ts, possible, prev) ==
    LET best == MaxOf({ sim_key(ts, possible[j], chain[1]) : j \in DOMAIN possible })
    IN  possible[MinOf({ j \in DOMAIN possible :
                            sim_key(ts, possible[j], chain[1]) = best })]

\* max(possible, key=sim_key): the first of the tracks of highest key
MaxBySim(ts, possible, prev) ==
    LET best == MaxOf({ sim_key(ts, possible[j], prev) : j \in DOMAIN possible })
    IN  possible[MinOf({ j \in DOMAIN possible :
                            sim_key(ts, possible[j], prev) = best })]

\* recent.append(v), then recent.pop(0) when longer than recent_cutoff
Recent(recent, v) ==
    IF Len(recent) + 1 > recent_cutoff THEN Tail(Append(recent, v))
    ELSE Append(recent, v)

\* one letter for each number from 0 to 7
Letter(k) == <<"a", "b", "c", "d", "e", "f", "g", "h">>[k + 1]

\* the libraries meander walks: track i of library c.  In "many" seven artists
\* take turns, each with one album; in "few" three do; in "mixed" albums,
\* album artists and track artists repeat at different distances and the
\* tenth track is the second once more.
MeanderTrack(c, i) ==
    LET j == IF c = "mixed" /\ i = 10 THEN 2 ELSE i
        artist == CASE c = "many" -> j % 7
                    [] c = "few" -> j % 3
                    [] c = "mixed" -> j % 8
        album == IF c = "mixed" THEN j % 6 ELSE artist
        guest == IF c = "mixed" THEN j % 7 ELSE artist
    IN  [BaseTrack EXCEPT
            !.dbid = j, !.name = <<"s", Letter(j % 8), Letter((j \div 8) % 8)>>,
            !.album = <<"l", Letter(album)>>,
            !.album_artist = <<"x", Letter(artist)>>,
            !.track_artist = <<"x", Letter(guest)>>,
            !.year = 2000 + ((3 * j) % 11),
            !.track_number = 1 + (j % 4),
            !.score = (j % 5) * (ScoreScale \div 2),
            !.overdue = (j % 3) * (RateScale \div 2),
            !.duration = MEDIAN_SONG_LENGTH + (j % 4) * ONE_MIN,
            !.playlists = IF j % 2 = 0 THEN {"p"} ELSE {"p", "q"}]

MeanderLibraries == {"many", "few", "mixed"}

\* insights.py:284-299: the first track is chosen at random
MeanderStart ==
    /\ me_pc = "start"
    /\ IF me_tracks = <<>>
       THEN \* random.choice of an empty sequence
            /\ me_pc' = "raised"
            /\ me_err' = "IndexError"
            /\ UNCHANGED <<remaining, previous, chain, recent_albums,
                           recent_album_artists, recent_track_artists>>
       ELSE \E first_track \in DOMAIN me_tracks :
               /\ previous' = first_track
               /\ remaining' = RemoveEqual(me_tracks,
                                           [i \in DOMAIN me_tracks |-> i],
                                           first_track)
               /\ chain' = <<first_track>>
               /\ recent_albums' = <<me_tracks[first_track].album>>
               /\ recent_album_artists' = <<me_tracks[first_track].album_artist>>
               /\ recent_track_artists' = <<me_tracks[first_track].track_artist>>
               /\ me_pc' = "loop"
               /\ UNCHANGED me_err
    /\ me_i' = 0
    /\ UNCHANGED <<me_tracks, classVars, shuffleVars, statsVars, simVars,
                   apiVars, cliVars, saveVars, mixVars>>

\* insights.py:300-326: one iteration of the loop, which the break ends
MeanderStep ==
    /\ me_pc = "loop"
    /\ me_i < MeanderSteps
    /\ LET possible == Possible(me_tracks, remaining, recent_albums,
                                recent_album_artists, recent_track_artists)
           next_track == MaxBySim(me_tracks, possible, previous)
       IN  IF possible = <<>>
           THEN /\ me_pc' = "done"
                /\ UNCHANGED <<remaining, previous, chain, recent_albums,
                               recent_album_artists, recent_track_artists, me_i>>
           ELSE /\ chain' = Append(chain, next_track)
                /\ remaining' = RemoveEqual(me_tracks, remaining, next_track)
                /\ recent_albums' = Recent(recent_albums,
                                           me_tracks[next_track].album)
                /\ recent_album_artists' =
                       Recent(recent_album_artists,
                              me_tracks[next_track].album_artist)
                /\ recent_track_artists' =
                       Recent(recent_track_artists,
                              me_tracks[next_track].track_artist)
                /\ previous' = next_track
                /\ me_i' = me_i + 1
                /\ UNCHANGED me_pc
    /\ UNCHANGED <<me_tracks, me_err, classVars, shuffleVars, statsVars, simVars,
                   apiVars, cliVars, saveVars, mixVars>>

\* insights.py:300, 327-332: the loop has run meander_len - 1 times; the chain
\* is written
MeanderEnd ==
    /\ me_pc = "loop"
    /\ ~(me_i < MeanderSteps)
    /\ me_pc' = "done"
    /\ UNCHANGED <<me_tracks, remaining, previous, chain, recent_albums,
                   recent_album_artists, recent_track_artists, me_i, me_err,
                   classVars, shuffleVars, statsVars, simVars, apiVars, cliVars, saveVars,
                   mixVars>>

MeanderIdle ==
    /\ me_tracks = <<>> /\ remaining = <<>> /\ previous = 0 /\ chain = <<>>
    /\ recent_albums = <<>> /\ recent_album_artists = <<>>
    /\ recent_track_artists = <<>> /\ me_i = 0 /\ me_pc = "off" /\ me_err = ""

InsightsIdle == MixIdle /\ MeanderIdle

(***************************************************************************)
(* music.py: save_data and show_diffs.  A record carries what the          *)
(* accessors key, rating, counts and score read from it; ratings and       *)
(* scores are counted in 1/DiffScale, so that 0.01 is two units.  A line   *)
(* of diff_list is the word it starts with ("ADD", "DEL", or the sign of   *)
(* the rating's change) and the key of the record it names.                *)
(***************************************************************************)
DiffScale == 200

rating_diff_threshold == DiffScale \div 100

score_diff_threshold == DiffScale \div 100

\* prev_items_by_key.get(k): a dict comprehension keeps the last item of a key
PrevItem(prev, k) ==
    LET js == { j \in DOMAIN prev : prev[j].key = k }
    IN  IF js = {} THEN None ELSE [kind |-> "item", item |-> prev[MaxOf(js)]]

\* the score of every matched record whose counts changed
MatchedScoreIfChanged(item, prev_item, has_score) ==
    IF has_score /\ item.counts # prev_item.counts
    THEN item.score - prev_item.score ELSE 0

\* music.py:1181-1182: what a matched record adds to total_diff
MatchedScore(item, prev_item, has_score) ==
    IF has_score THEN item.score - prev_item.score ELSE 0

\* a change line for every matched record whose rating changed
ChangeLineNoSentinel(item, prev_item) ==
    LET rating_diff == item.rating - prev_item.rating
    IN  IF Abs(rating_diff) >= rating_diff_threshold
        THEN << [disp |-> IF rating_diff > 0 THEN "+" ELSE "-",
                 key |-> item.key] >>
        ELSE << >>

\* music.py:1183-1192: the line of a matched record, if it gets one
ChangeLine(item, prev_item) ==
    IF item.counts # prev_item.counts
    THEN LET rating_diff == item.rating - prev_item.rating
         IN  IF Abs(rating_diff) >= rating_diff_threshold
             THEN << [disp |-> IF rating_diff > 0 THEN "+" ELSE "-",
                      key |-> item.key] >>
             ELSE << >>
    ELSE << >>

\* music.py:1171-1192: the loop over current, from no lines and a total of 0
CurrentLoop(current, prev, has_score) ==
    LET loop[n \in 0..Len(current)] ==
            IF n = 0 THEN [lines |-> << >>, total |-> 0]
            ELSE LET item == current[n]
                     found == PrevItem(prev, item.key)
                 IN  IF found = None
                     THEN [lines |-> Append(loop[n - 1].lines,
                                            [disp |-> "ADD", key |-> item.key]),
                           total |-> loop[n - 1].total
                                       + IF has_score THEN item.score ELSE 0]
                     ELSE [lines |-> loop[n - 1].lines
                                       \o ChangeLine(item, found.item),
                           total |-> loop[n - 1].total
                                       + MatchedScore(item, found.item, has_score)]
    IN  loop[Len(current)]

\* the loop over previous taken from its end
PreviousLoopReversed(current, prev, has_score) ==
    LET current_keys == { current[i].key : i \in DOMAIN current }
        loop[n \in 0..Len(prev)] ==
            IF n = 0 THEN [lines |-> << >>, total |-> 0]
            ELSE LET item == prev[Len(prev) + 1 - n]
                 IN  IF item.key \notin current_keys
                     THEN [lines |-> Append(loop[n - 1].lines,
                                            [disp |-> "DEL", key |-> item.key]),
                           total |-> loop[n - 1].total
                                       - IF has_score THEN item.score ELSE 0]
                     ELSE loop[n - 1]
    IN  loop[Len(prev)]

\* music.py:1193-1199: the loop over previous; what it appends and subtracts
PreviousLoop(current, prev, has_score) ==
    LET current_keys == { current[i].key : i \in DOMAIN current }
        loop[n \in 0..Len(prev)] ==
            IF n = 0 THEN [lines |-> << >>, total |-> 0]
            ELSE LET item == prev[n]
                 IN  IF item.key \notin current_keys
                     THEN [lines |-> Append(loop[n - 1].lines,
                                            [disp |-> "DEL", key |-> item.key]),
                           total |-> loop[n - 1].total
                                       - IF has_score THEN item.score ELSE 0]
                     ELSE loop[n - 1]
    IN  loop[Len(prev)]

\* music.py:1155-1207: what show_diffs logs, and how it ends.  avg_diff is
\* total_diff / len(current), so |avg_diff| > t is |total_diff| > t * len.
show_diffs(current, prev, has_score) ==
    LET cur == CurrentLoop(current, prev, has_score)
        del == PreviousLoop(current, prev, has_score)
        diff_list == cur.lines \o del.lines
        total_diff == cur.total + del.total
        logged == [lines |-> diff_list,
                   total |-> total_diff,
                   list_logged |-> diff_list # << >>,
                   total_logged |-> Abs(total_diff) > score_diff_threshold]
    IN  IF Len(current) = 0
        THEN [kind |-> "raised", error |-> "ZeroDivisionError",
              avg_logged |-> FALSE] @@ logged
        ELSE [kind |-> "returned", error |-> "",
              avg_logged |-> Abs(total_diff)
                                 > score_diff_threshold * Len(current)] @@ logged

\* music.py:1133: data = [{"index": i, **item} for i, item in enumerate(data)]
WithIndex(data) == [i \in DOMAIN data |-> [index |-> i - 1] @@ data[i]]

\* the records of the snapshot that was saved before, rated 1.5 (from where
\* the float differences compare with 0.01 as the exact ones do)
PreviousPool ==
    { [key |-> k, rating |-> 3 * (DiffScale \div 2), counts |-> 10, score |-> 4] :
        k \in 1..2 }

\* the records to save: counts and rating as before or changed, the rating by
\* less than, exactly, or more than the threshold
CurrentPool ==
    { [key |-> k, rating |-> 3 * (DiffScale \div 2) + rc[1], counts |-> rc[2],
       score |-> sc] :
        k \in 1..3,
        rc \in { <<0, 10>>, <<rating_diff_threshold, 10>>,
                 <<rating_diff_threshold - 1, 12>>,
                 <<rating_diff_threshold, 12>>,
                 <<0 - rating_diff_threshold - 1, 12>> },
        sc \in { 4, 4 + score_diff_threshold } }

\* the lists of up to n records of the pool whose keys differ
DiffLists(pool, n) ==
    { recs \in SeqsUpTo(pool, n) :
        \A i, j \in DOMAIN recs : i # j => recs[i].key # recs[j].key }

ExamplePrevious ==
    << [key |-> 1, rating |-> 50 * DiffScale, counts |-> 10, score |-> 0] >>

ExampleCurrent ==
    << [key |-> 1, rating |-> 55 * DiffScale, counts |-> 12, score |-> 0],
       [key |-> 2, rating |-> 80 * DiffScale, counts |-> 1, score |-> 0] >>

\* show_diffs called on the two lists (music.py:1155-1207)
ShowDiffs ==
    /\ df_pc = "start"
    /\ df_out' = show_diffs(df_current, df_previous, df_score)
    /\ df_pc' = "shown"
    /\ UNCHANGED <<df_current, df_previous, df_score, df_show, df_file,
                   classVars, shuffleVars, statsVars, simVars, apiVars,
                   insightVars, cliVars>>

\* music.py:1109-1152: save_data reads the snapshot, reports, writes the file
SaveData ==
    /\ df_pc = "start"
    /\ LET data == WithIndex(df_current)
           called == /\ df_show
                     /\ df_file.kind = "json"
                     /\ data # df_file.data
           shown == show_diffs(data, df_file.data, df_score)
       IN  IF called /\ shown.kind = "raised"
           THEN /\ df_out' = shown
                /\ df_pc' = "raised"
                /\ UNCHANGED df_file
           ELSE /\ df_out' = IF called THEN shown ELSE [kind |-> "notcalled"]
                /\ df_file' = [kind |-> "json", data |-> data]
                /\ df_pc' = "saved"
    /\ UNCHANGED <<df_current, df_previous, df_score, df_show, classVars,
                   shuffleVars, statsVars, simVars, apiVars, insightVars,
                   cliVars>>

DiffIdle ==
    /\ df_current = << >> /\ df_previous = << >> /\ df_score = FALSE
    /\ df_show = FALSE /\ df_file = Off /\ df_out = Off /\ df_pc = "off"

\* the class variables as the class statement sets them (music.py:97-98)
ClassDefault ==
    median_song_length = MEDIAN_SONG_LENGTH /\ score_base = DEFAULT_SCORE_BASE

SimIdle == sim_a = None /\ sim_b = None /\ sim_vec = <<>> /\ sim_out = None

StatsIdle == ms_in = None /\ ms_out = None /\ tc_in = None /\ tc_out = None

InitShuffleUpTo(maxlen) ==
    /\ \E sc \in ShuffleConfigs :
          \* Track.set_down_ranked
          /\ downranked_artists = { casefold(x) : x \in sc.artists }
          /\ downranked_genres = { casefold(x) : x \in sc.genres }
    /\ input \in SeqsUpTo(ShufflePool, maxlen)
    /\ tracks = <<>> /\ weights = <<>> /\ total_weight = 0 /\ shuffled = <<>>
    /\ pc = "idle" /\ err = ""
    \* the generator as earlier code left it: seeded by the system (seed 0)
    /\ rng \in { <<0, n>> : n \in 0..1 }
    /\ stream = <<>>
    /\ call = 1 /\ first = <<>> /\ others = 0
    /\ StatsIdle /\ ClassDefault /\ SimIdle /\ ApiIdle /\ CliIdle /\ InsightsIdle /\ DiffIdle

InitShuffle == InitShuffleUpTo(MaxTracks)

NextShuffle == ShuffleStart \/ ShuffleDraw \/ ShuffleReturn \/ OtherDraw \/ CallAgain

SpecShuffle == InitShuffle /\ [][NextShuffle]_vars

InitAgg == InitShuffleUpTo(MaxAggTracks)

NextAgg == NextShuffle \/ MetadataStatsBuild \/ TrackCollectionBuild

SpecAgg == InitAgg /\ [][NextAgg]_vars

InitSim ==
    /\ \E c \in Calibrations :
          /\ median_song_length = c.median_song_length
          /\ score_base = c.score_base
    /\ sim_a \in SimPool /\ sim_b \in SimPool
    /\ sim_vec = <<>> /\ sim_out = None
    /\ ShuffleIdle /\ StatsIdle /\ ApiIdle /\ CliIdle /\ InsightsIdle /\ DiffIdle

NextSim == SimilarityTo

SpecSim == InitSim /\ [][NextSim]_vars

\* two library records that differ in play count or skip count alone
InitMetric ==
    /\ \E c \in Calibrations :
          /\ median_song_length = c.median_song_length
          /\ score_base = c.score_base
    /\ \E a \in ApiPool, p \in 0..MaxCount, k \in 0..MaxCount :
          /\ (p = a.played_count) # (k = a.skipped_count)
          /\ api_in = <<a, [a EXCEPT !.played_count = p, !.skipped_count = k]>>
    /\ api_out = <<>>
    /\ ShuffleIdle /\ StatsIdle /\ SimIdle /\ CliIdle /\ InsightsIdle /\ DiffIdle

NextMetric == FromApiCall

SpecMetric == InitMetric /\ [][NextMetric]_vars

\* the update command starts on a library and an output directory
InitUpdate ==
    /\ cfg \in UpdateConfigs
    /\ \E src \in SeqsUpTo(DOMAIN LibTracks, MaxLib),
          oth \in { <<1>>, <<3>> } :
          library = [ tracks |-> LibTracks,
                      playlists |-> (SourcePlaylist :> src)
                                        @@ (OtherPlaylist :> oth),
                      \* the tracks whose album carries a user's rating
                      album_ratings |-> {1, 2} ]
    /\ \E tot \in {None, [median_song_length |-> 3000, score_base |-> 900]} :
          files = [ totals |-> tot, sentinels |-> <<>>, snapshots |-> {} ]
    /\ step = "sync" /\ abort = None /\ written = {}
    /\ heap = <<>> /\ tracks_by_dbid = <<>> /\ tracks_by_playlist = <<>>
    /\ source_tracks = <<>> /\ playlist_map = <<>> /\ stat_i = 0 /\ calls = <<>>
    /\ ShuffleIdle /\ StatsIdle /\ SimIdle /\ ApiIdle /\ ClassDefault /\ InsightsIdle /\ DiffIdle

NextUpdate ==
    \/ SyncDevice \/ UpdateTrackParams \/ ClearAlbumRatings \/ LoadSource
    \/ UpdateTrackRatings \/ UpdateFavorites \/ OverduePlaylist
    \/ ShufflePlaylist \/ ShuffleStart \/ ShuffleDraw \/ ShuffleReturn
    \/ ShuffleReturned \/ ShuffleRaised \/ UpdatePlaylists \/ SaveStats
    \/ SaveGenerated \/ FinalSync

SpecUpdate == InitUpdate /\ [][NextUpdate]_vars

\* update_every of the configuration when it is set: a day, in hours
UpdateEveryDay == 24 * ONE_HOUR

\* every setting of the switches of the configuration, as cli() has it after
\* the command-line flags are applied
AllConfigs ==
    { [ active |-> a,
        sync_enabled |-> sy, iphone_name |-> "phone",
        album_ratings_clear |-> c, track_ratings_update |-> r,
        favorites_update |-> f, top_percent |-> 50,
        overdue_enabled |-> o, overdue_parent |-> None,
        overdue_save_tracks |-> TRUE,
        shuffle_enabled |-> sh, shuffle_parent |-> None,
        shuffle_save_tracks |-> TRUE,
        downranked |-> [artists |-> {<<"B">>}, genres |-> {}],
        force_update |-> fu, remove_only |-> ro, update_every |-> ue,
        stats |-> << [name |-> SourcePlaylist, save_totals |-> TRUE,
                      save_tracks |-> TRUE, save_collections |-> FALSE] >> ]
      : a \in BOOLEAN, sy \in BOOLEAN, c \in BOOLEAN, r \in BOOLEAN,
        f \in BOOLEAN, o \in BOOLEAN, sh \in BOOLEAN, fu \in BOOLEAN,
        ro \in BOOLEAN, ue \in {0, UpdateEveryDay} }

\* the generated playlists as an earlier run left them in the library: none,
\* or both, holding a track that is no longer in the source playlist
GeneratedBefore ==
    { <<>>,
      (ShuffleName :> <<3, 1, 4>>) @@ (OverdueName :> <<3, 1>>) }

\* the sentinel files, by their age in hours: none, both an hour old, both
\* two days old, one of each
SentinelsBefore ==
    { <<>>,
      (ShuffleName :> ONE_HOUR) @@ (OverdueName :> ONE_HOUR),
      (ShuffleName :> 2 * ONE_DAY) @@ (OverdueName :> 2 * ONE_DAY),
      (ShuffleName :> 2 * ONE_DAY) @@ (OverdueName :> ONE_HOUR) }

\* the update command under every configuration, on a library whose source
\* playlist loads
InitUpdateAll ==
    /\ cfg \in AllConfigs
    /\ \E src \in { <<1, 2>>, <<2, 4, 1>> }, gen \in GeneratedBefore :
          library = [ tracks |-> LibTracks,
                      playlists |-> (SourcePlaylist :> src)
                                        @@ (OtherPlaylist :> <<1>>) @@ gen,
                      album_ratings |-> {1, 2} ]
    /\ \E sent \in SentinelsBefore :
          files = [ totals |-> None, sentinels |-> sent, snapshots |-> {} ]
    /\ step = "sync" /\ abort = None /\ written = {}
    /\ heap = <<>> /\ tracks_by_dbid = <<>> /\ tracks_by_playlist = <<>>
    /\ source_tracks = <<>> /\ playlist_map = <<>> /\ stat_i = 0 /\ calls = <<>>
    /\ ShuffleIdle /\ StatsIdle /\ SimIdle /\ ApiIdle /\ ClassDefault
    /\ InsightsIdle /\ DiffIdle

SpecUpdateAll == InitUpdateAll /\ [][NextUpdate]_vars

InitMixtape ==
    /\ mix_tracks \in SeqsUpTo(MixPool, MaxMix)
    /\ mix_budget \in Budgets
    /\ fu_out = None /\ fd_out = None /\ mix_out = None
    /\ ShuffleIdle /\ StatsIdle /\ SimIdle /\ ApiIdle /\ CliIdle /\ ClassDefault
    /\ MeanderIdle /\ DiffIdle

NextMixtape == FilterUnique \/ FilterDuration \/ Mixtape

SpecMixtape == InitMixtape /\ [][NextMixtape]_vars

InitMeander ==
    /\ \E c \in MeanderLibraries, n \in 0..MaxMeander :
          me_tracks = [i \in 1..n |-> MeanderTrack(c, i)]
    /\ remaining = <<>> /\ previous = 0 /\ chain = <<>>
    /\ recent_albums = <<>> /\ recent_album_artists = <<>>
    /\ recent_track_artists = <<>> /\ me_i = 0 /\ me_pc = "start" /\ me_err = ""
    /\ ShuffleIdle /\ StatsIdle /\ SimIdle /\ ApiIdle /\ CliIdle /\ ClassDefault
    /\ MixIdle /\ DiffIdle

NextMeander == MeanderStart \/ MeanderStep \/ MeanderEnd

SpecMeander == InitMeander /\ [][NextMeander]_vars

InitDiff ==
    /\ \E pair \in (DiffLists(CurrentPool, MaxDiff)
                        \X DiffLists(PreviousPool, MaxDiff))
                    \cup { <<ExampleCurrent, ExamplePrevious>> } :
          /\ df_current = pair[1]
          /\ df_previous = pair[2]
    /\ df_score \in BOOLEAN
    /\ df_show \in BOOLEAN
    /\ df_file \in { [kind |-> "absent"],
                     [kind |-> "json", data |-> WithIndex(df_previous)] }
    /\ df_out = None /\ df_pc = "start"
    /\ ShuffleIdle /\ StatsIdle /\ SimIdle /\ ApiIdle /\ CliIdle /\ ClassDefault
    /\ InsightsIdle

NextDiff == ShowDiffs \/ SaveData

SpecDiff == InitDiff /\ [][NextDiff]_vars

(***************************************************************************)
(* Properties of weighted_shuffle.                                         *)
(***************************************************************************)
\* weighted_shuffle has run its prologue (lines 876-896) at least once
Started == pc # "idle" \/ call = 2

\* the weights of the whole input have just been computed
AtWeights == pc = "loop" /\ Len(tracks) = Len(input)

min_score_of_input == MinOf({ input[i].score : i \in DOMAIN input })

\* (score - min_score + 0.01) * (1 + overdue), in 1/(ScoreScale * RateScale)
RawWeight(i) ==
    (input[i].score - min_score_of_input + weight_floor)
        * (RateScale + input[i].overdue)

\* C1: whenever weighted_shuffle returns, the returned list is as long as the
\* input and holds every input track (every position of the input list)
\* exactly once.
C1_Permutation ==
    pc = "returned" =>
        /\ Len(shuffled) = Len(input)
        /\ \A i \in DOMAIN input :
              Cardinality({ j \in DOMAIN shuffled : shuffled[j] = i }) = 1

\* a call on three tracks has returned them in another order than the input's
C1_Witness ==
    /\ pc = "returned"
    /\ Len(input) = 3
    /\ shuffled[1] # 1
    /\ Cardinality(DOMAIN stream) >= 3

\* C2: a second call, made the same day (same seed) on the same list, returns
\* the sequence the first call returned, whatever was drawn in between.
C2_Deterministic ==
    (pc = "returned" /\ call = 2) => shuffled = first

\* a second call has returned after another draw was made in between, and the
\* order is not the input's
C2_Witness ==
    /\ pc = "returned" /\ call = 2
    /\ others > 0
    /\ Len(input) >= 2
    /\ shuffled[1] # 1

\* C3: when some track's adjusted weight is zero or negative, weighted_shuffle
\* raises before it selects any track.
C3_RejectsNonPositiveWeight ==
    (Started /\ input # <<>> /\ \E i \in DOMAIN input : RawWeight(i) <= 0)
        => (pc = "raised" /\ shuffled = <<>>)

\* C4 as amended: the weight is (score - min_score + 0.01) * (1 + overdue),
\* halved if the track is down-ranked, and doubled if the track is a favorite
\* that is not down-ranked.  (weights are counted in halves of RawWeight's
\* unit.)
C4_WeightHalvedElseDoubled ==
    AtWeights =>
        \A i \in DOMAIN input :
            weights[i] * (IF is_downranked(input[i]) THEN 2 ELSE 1)
                = 2 * RawWeight(i)
                    * (IF input[i].favorite /\ ~is_downranked(input[i])
                       THEN 2 ELSE 1)

\* C4 as claimed: both adjustments apply to every track that meets their
\* condition.
C4_WeightHalvedAndDoubled ==
    AtWeights =>
        \A i \in DOMAIN input :
            weights[i] * (IF is_downranked(input[i]) THEN 2 ELSE 1)
                = 2 * RawWeight(i) * (IF input[i].favorite THEN 2 ELSE 1)

\* weights were computed for a list holding a down-ranked favorite of non-zero
\* weight, a favorite that is not down-ranked and a down-ranked non-favorite
C4_Witness ==
    /\ AtWeights
    /\ \E i \in DOMAIN input :
          is_downranked(input[i]) /\ input[i].favorite /\ weights[i] # 0
    /\ \E i \in DOMAIN input :
          is_downranked(input[i]) /\ ~input[i].favorite /\ weights[i] # 0
    /\ \E i \in DOMAIN input :
          ~is_downranked(input[i]) /\ ~input[i].favorite /\ weights[i] # 0

(***************************************************************************)
(* Properties of the update command.                                       *)
(***************************************************************************)
\* the run has ended with a data error (from_api raised inside a load) or
\* with weighted_shuffle's selection failure
AbortedOnDataOrSelection ==
    /\ step = "aborted"
    /\ \/ abort.in = "load"
       \/ abort.in = "weighted_shuffle" /\ abort.error = "RuntimeError"

\* C5: a run that aborts with a data error or with a weighted-shuffle
\* selection failure has written nothing before the abort: no rating, no album
\* rating, no playlist change and no snapshot file.
C5_AbortWritesNothing ==
    AbortedOnDataOrSelection =>
        /\ written = {}
        /\ files.snapshots = {}

(***************************************************************************)
(* Properties of the aggregators.                                          *)
(***************************************************************************)
\* C6: MetadataStats built from an empty value list, TrackCollection built
\* from an empty track list and weighted_shuffle called on an empty list fail
\* with an error and produce no result.
C6_EmptyRejected ==
    /\ (ms_in # None /\ ms_in.arg = <<>>) => ms_out.kind = "raised"
    /\ (tc_in # None /\ tc_in.arg = <<>>) => tc_out.kind = "raised"
    /\ (Started /\ input = <<>>) => (pc = "raised" /\ shuffled = <<>>)

\* all three were invoked on the empty list, and all three raised
C6_Witness ==
    /\ input = <<>> /\ pc = "raised" /\ err = "ValueError"
    /\ ms_in # None /\ ms_in.arg = <<>> /\ ms_out = Raised("AssertionError")
    /\ tc_in # None /\ tc_in.arg = <<>> /\ tc_out = Raised("AssertionError")

(***************************************************************************)
(* Properties of similarity_to.                                            *)
(***************************************************************************)
SimDone == sim_out # None

\* two fractions of positive denominator are the same number
FracEq(f, g) == f[1] * g[2] = g[1] * f[2]

IsOne(f) == f[1] = f[2]
IsZero(f) == f[1] = 0

\* the index of the playlist overlap in the feature vector
PlaylistFeature == 7

\* C7 as claimed: for every track a, whatever its playlists, each of the 13
\* feature values of the pair (a, a) is 1 and a.similarity_to(a) is 1.
C7_Reflexive ==
    (SimDone /\ sim_a = sim_b) =>
        /\ Len(sim_vec) = 13
        /\ \A i \in DOMAIN sim_vec : IsOne(sim_vec[i])
        /\ IsOne(sim_out)

\* C7 as amended: for the pair (a, a) every feature value but the playlist
\* overlap is 1; if a is in at least one playlist the overlap is 1 too and
\* a.similarity_to(a) is 1; if a is in no playlist the overlap is 0 and
\* a.similarity_to(a) is below 1.
C7_ReflexiveIfInAPlaylist ==
    (SimDone /\ sim_a = sim_b) =>
        /\ Len(sim_vec) = 13
        /\ \A i \in DOMAIN sim_vec \ {PlaylistFeature} : IsOne(sim_vec[i])
        /\ sim_a.playlists # {} =>
              (IsOne(sim_vec[PlaylistFeature]) /\ IsOne(sim_out))
        /\ sim_a.playlists = {} =>
              (IsZero(sim_vec[PlaylistFeature]) /\ sim_out[1] < sim_out[2])

\* a track in two playlists was compared with itself under a calibrated base
C7_Witness ==
    /\ SimDone /\ sim_a = sim_b
    /\ sim_a.playlists = {"p", "q"}
    /\ score_base # DEFAULT_SCORE_BASE
    /\ IsOne(sim_out)

\* C8: every feature value of (a, b) equals that of (b, a), and
\* a.similarity_to(b) = b.similarity_to(a).
C8_Symmetric ==
    SimDone =>
        /\ \A i \in DOMAIN sim_vec :
              FracEq(sim_vec[i], SimVec(sim_b, sim_a)[i])
        /\ sim_out = Normalize(SimVec(sim_b, sim_a), score_base)

\* two tracks that differ in year, duration, score and playlists were
\* compared, and are neither wholly alike nor wholly unlike
C8_Witness ==
    /\ SimDone
    /\ sim_a.year < sim_b.year /\ sim_a.duration # sim_b.duration
    /\ sim_a.score < sim_b.score /\ sim_a.playlists # sim_b.playlists
    /\ 0 < sim_out[1] /\ sim_out[1] < sim_out[2]

BothAccepted ==
    /\ Len(api_out) = 2
    /\ api_out[1].kind = "Track" /\ api_out[2].kind = "Track"

\* C10: of two accepted tracks that differ only in play_count, the one with
\* more plays has net_rate and score at least as large; of two that differ
\* only in skip_count, the one with more skips has them at most as large.
C10_ScoreMonotone ==
    BothAccepted =>
        LET a == api_out[1].track
            b == api_out[2].track
        IN  /\ (a.skip_count = b.skip_count /\ a.play_count < b.play_count)
                  => (a.net_rate <= b.net_rate /\ a.score <= b.score)
            /\ (a.play_count = b.play_count /\ a.skip_count < b.skip_count)
                  => (a.net_rate >= b.net_rate /\ a.score >= b.score)

(***************************************************************************)
(* Properties of Track.from_api.                                           *)
(***************************************************************************)
\* C11: from_api rejects with an error every record whose age since added
\* (NOW - date_added) is zero or negative; no Track is built from one.
C11_RejectsNonPositiveAge ==
    \A i \in DOMAIN api_out :
        NOW - api_in[i].date_added <= 0 => api_out[i].kind = "raised"

(***************************************************************************)
(* Properties of the mixtape.                                              *)
(***************************************************************************)
MixDuration(ids) == Sum([k \in DOMAIN ids |-> mix_tracks[ids[k]].duration])

\* the main sequence of the mixtape written: its tracks of non-zero number
MixMain ==
    LET Numbered(i) == mix_tracks[i].track_number # 0
    IN  SelectSeq(mix_out.tracks, Numbered)

MixWritten == mix_out.kind = "written"

\* C12: the durations of the tracks filter_duration returns sum to at most
\* the budget, and the main sequence of the mixtape to at most 45 minutes.
C12_DurationBound ==
    /\ fd_out.kind = "returned" => MixDuration(fd_out.tracks) <= mix_budget
    /\ MixWritten => MixDuration(MixMain) <= MixtapeBudget

\* filter_duration has passed over a track that did not fit and taken a later
\* one, which filled the budget to the last second
C12_Witness ==
    /\ fd_out.kind = "returned"
    /\ Len(mix_tracks) = 3
    /\ fd_out.tracks = <<1, 3>>
    /\ MixDuration(fd_out.tracks) = mix_budget
    /\ MixWritten

\* C13: no two tracks of the main sequence have the same track number, and
\* filter_unique_track_numbers keeps, for each track number, the first track
\* of that number in the order of the list.
C13_UniqueFirst ==
    /\ MixWritten =>
          \A j, k \in DOMAIN MixMain :
              mix_tracks[MixMain[j]].track_number
                  = mix_tracks[MixMain[k]].track_number => j = k
    /\ fu_out.kind = "returned" =>
          /\ \A i \in DOMAIN mix_tracks :
                (\E k \in DOMAIN fu_out.tracks : fu_out.tracks[k] = i)
                    <=> (\A h \in 1..(i - 1) :
                            mix_tracks[h].track_number
                                # mix_tracks[i].track_number)
          /\ \A j, k \in DOMAIN fu_out.tracks :
                j < k => fu_out.tracks[j] < fu_out.tracks[k]

\* a list with the same track number first and last, on tracks of different
\* lengths, was filtered and made into a mixtape
C13_Witness ==
    /\ MixWritten
    /\ Len(mix_tracks) = 3
    /\ mix_tracks[1].track_number = mix_tracks[3].track_number
    /\ mix_tracks[1].duration # mix_tracks[3].duration
    /\ mix_tracks[1].track_number # 0
    /\ fu_out.tracks = <<1, 2>>

\* the first track of number 0 among the rested tracks, if there is one
FirstBonus ==
    LET Bonus(i) == mix_tracks[i].track_number = 0
    IN  SelectSeq(Master(mix_tracks), Bonus)

\* the written mixtape is the main sequence in ascending track-number order,
\* followed by the first track of number 0 when there is one
MixOrdered ==
    LET out == mix_out.tracks
        n == Len(MixMain)
    IN  /\ \A j \in 1..n : out[j] = MixMain[j]
        /\ \A j, k \in 1..n :
              j < k => mix_tracks[out[j]].track_number
                           < mix_tracks[out[k]].track_number
        /\ IF FirstBonus = <<>> THEN Len(out) = n
           ELSE Len(out) = n + 1 /\ out[n + 1] = FirstBonus[1]

\* C14 as claimed: for every input, one with an empty main sequence too, the
\* main sequence is output in ascending track-number order and, whenever a
\* rested track has number 0, the output ends with exactly one bonus track,
\* the first such track.
C14_SortedWithBonus ==
    mix_out # None =>
        /\ MixWritten => MixOrdered
        /\ FirstBonus # <<>> => MixWritten /\ Len(mix_out.tracks) >= 1

\* C14 as amended: when the main sequence is not empty the output is as
\* claimed; when it is empty mixtape outputs nothing, the bonus track included.
C14_SortedWithBonusIfMain ==
    mix_out # None =>
        /\ MixWritten <=> MainOf(mix_tracks) # <<>>
        /\ MixWritten => MixOrdered

\* a mixtape was written from two tracks given in descending track-number
\* order, followed by a track of number 0
C14_Witness ==
    /\ MixWritten
    /\ Len(mix_tracks) = 3
    /\ mix_out.tracks = <<2, 1, 3>>

(***************************************************************************)
(* Properties of meander.                                                  *)
(***************************************************************************)
\* how often the track equal to t occurs among the positions ids
Occurrences(ids, t) ==
    Cardinality({ k \in DOMAIN ids : me_tracks[ids[k]] = t })

C15_WitnessFull ==
    /\ me_pc = "done"
    /\ Len(chain) = MAX_LINES
    /\ Possible(me_tracks, remaining, recent_albums, recent_album_artists,
                recent_track_artists) # <<>>

C16_WindowExclusion ==
    \A j \in DOMAIN chain :
        \A h \in DOMAIN chain :
            (h < j /\ j - h <= recent_cutoff) =>
                /\ me_tracks[chain[j]].album # me_tracks[chain[h]].album
                /\ me_tracks[chain[j]].album_artist
                       # me_tracks[chain[h]].album_artist
                /\ me_tracks[chain[j]].track_artist
                       # me_tracks[chain[h]].track_artist

\* a chain of more than 6 tracks in which a track shares its track artist
\* with the track six places before it, and its album with none of the chain
C16_Witness ==
    /\ me_pc = "done"
    /\ \E j \in DOMAIN chain :
          /\ j > recent_cutoff + 1
          /\ me_tracks[chain[j]].track_artist
                 = me_tracks[chain[j - recent_cutoff - 1]].track_artist

(***************************************************************************)
(* Properties of show_diffs and save_data.                                 *)
(***************************************************************************)
\* show_diffs has run on df_current and df_previous and built its lines
DiffShown == df_out.kind \in {"returned", "raised"}

KeysOf(recs) == { recs[i].key : i \in DOMAIN recs }

\* the places of diff_list whose line names the key k
LinesOf(k) == { n \in DOMAIN df_out.lines : df_out.lines[n].key = k }

\* the record of key k in a list of records of distinct keys
RecordOf(recs, k) == recs[CHOOSE i \in DOMAIN recs : recs[i].key = k]

\* C17: exactly one ADD line for each key only in current, exactly one DEL
\* line for each key only in previous, no line for a key in both whose counts
\* are unchanged whatever its rating did; the example of the specification
\* gives one change line for id 1 and one ADD line for id 2.
C17_AddDelAndSentinel ==
    DiffShown =>
        /\ \A k \in KeysOf(df_current) \ KeysOf(df_previous) :
              /\ Cardinality(LinesOf(k)) = 1
              /\ \A n \in LinesOf(k) : df_out.lines[n].disp = "ADD"
        /\ \A k \in KeysOf(df_previous) \ KeysOf(df_current) :
              /\ Cardinality(LinesOf(k)) = 1
              /\ \A n \in LinesOf(k) : df_out.lines[n].disp = "DEL"
        /\ \A k \in KeysOf(df_current) \cap KeysOf(df_previous) :
              RecordOf(df_current, k).counts = RecordOf(df_previous, k).counts
                  => LinesOf(k) = {}
        /\ (df_current = ExampleCurrent /\ df_previous = ExamplePrevious) =>
              df_out.lines = << [disp |-> "+", key |-> 1],
                                [disp |-> "ADD", key |-> 2] >>

\* a record was added, one deleted, and one kept its counts while its rating
\* changed by the threshold
C17_Witness ==
    /\ DiffShown
    /\ KeysOf(df_current) \ KeysOf(df_previous) # {}
    /\ KeysOf(df_previous) \ KeysOf(df_current) # {}
    /\ \E k \in KeysOf(df_current) \cap KeysOf(df_previous) :
          /\ RecordOf(df_current, k).counts = RecordOf(df_previous, k).counts
          /\ RecordOf(df_current, k).rating # RecordOf(df_previous, k).rating

\* the example of the specification has been reported
C17_WitnessExample ==
    DiffShown /\ df_current = ExampleCurrent /\ df_previous = ExamplePrevious

\* the place of the record of key k in a list of records of distinct keys
PlaceOf(recs, k) == CHOOSE i \in DOMAIN recs : recs[i].key = k

\* the ADD and change lines come first, in the order of current; the DEL lines
\* follow, in the order of previous
DiffOrdered ==
    DiffShown =>
        \A m, n \in DOMAIN df_out.lines :
            m < n =>
                /\ df_out.lines[m].disp = "DEL" => df_out.lines[n].disp = "DEL"
                /\ (df_out.lines[m].disp # "DEL" /\ df_out.lines[n].disp # "DEL")
                       => PlaceOf(df_current, df_out.lines[m].key)
                              < PlaceOf(df_current, df_out.lines[n].key)
                /\ (df_out.lines[m].disp = "DEL" /\ df_out.lines[n].disp = "DEL")
                       => PlaceOf(df_previous, df_out.lines[m].key)
                              < PlaceOf(df_previous, df_out.lines[n].key)

\* C18: the lines are the ADD and change lines in the order of the current
\* list, then the DEL lines in the order of the previous list, and neither
\* list nor any record of them is changed by the call.
C18_OrderedAndPure ==
    /\ []DiffOrdered
    /\ [][df_current' = df_current /\ df_previous' = df_previous]_vars

\* an ADD line is followed by two DEL lines, for a previous list in which the
\* greater key comes first
C18_Witness ==
    /\ DiffShown
    /\ Len(df_out.lines) = 3
    /\ df_out.lines[2].disp = "DEL"
    /\ df_previous[1].key > df_previous[2].key

\* C19: show_diffs never raises for the content of the two lists, an empty
\* current list included, and save_data then saves the snapshot.
C19_NeverRaises ==
    /\ df_out.kind # "raised"
    /\ df_pc \in {"saved", "raised"} =>
          df_file = [kind |-> "json", data |-> WithIndex(df_current)]

\* the sum of score over a list of records
ScoreSum(recs) == Sum([i \in DOMAIN recs |-> recs[i].score])

\* C20: with a score accessor and distinct keys the accumulated net change is
\* the sum of score over current minus the sum of score over previous; the
\* total line is reported only when |total| > 0.01, the average line only
\* when |total / number of current records| > 0.01.
C20_NetChange ==
    (DiffShown /\ df_score) =>
        /\ df_out.total = ScoreSum(df_current) - ScoreSum(df_previous)
        /\ df_out.total_logged =>
              Abs(ScoreSum(df_current) - ScoreSum(df_previous))
                  > score_diff_threshold
        /\ df_out.avg_logged =>
              /\ Len(df_current) > 0
              /\ Abs(ScoreSum(df_current) - ScoreSum(df_previous))
                     > score_diff_threshold * Len(df_current)

\* a record was added, one removed, and one kept its counts while its score
\* changed; the total is reported and the average, at the threshold, is not
C20_Witness ==
    /\ DiffShown /\ df_score
    /\ df_out.total_logged /\ ~df_out.avg_logged
    /\ KeysOf(df_current) \ KeysOf(df_previous) # {}
    /\ KeysOf(df_previous) \ KeysOf(df_current) # {}
    /\ \E k \in KeysOf(df_current) \cap KeysOf(df_previous) :
          /\ RecordOf(df_current, k).counts = RecordOf(df_previous, k).counts
          /\ RecordOf(df_current, k).score # RecordOf(df_previous, k).score

(***************************************************************************)
(* Properties of the ratings.                                              *)
(***************************************************************************)
\* for every list of 1 to MaxRated tracks and every index of it, the value
\* update_track_ratings passes to set_rating
RatingBins ==
    \A n \in 1..MaxRated : \A i \in 0..(n - 1) :
        /\ RatingAt(i, n, 0) = 0
        /\ 1 <= RatingAt(i, n, 1) /\ RatingAt(i, n, 1) <= 100

\* update_track_ratings has just run on the source tracks
Rated == step = "favorites"

\* every source track that was never played is rated 0, every other one
\* between 1 and 100
RatedInRange ==
    Rated =>
        \A i \in DOMAIN source_tracks :
            LET track == heap[source_tracks[i]]
            IN  IF track.play_count > 0
                THEN 1 <= track.rating /\ track.rating <= 100
                ELSE track.rating = 0

\* a step changes the rating of a track object, or of a track of the library,
\* only if it is update_track_ratings; the library's only in an active run
\* with track_ratings.update
RatingFrame ==
    /\ \A id \in DOMAIN heap :
          (id \in DOMAIN heap' /\ heap'[id].rating # heap[id].rating)
              => step = "ratings"
    /\ \A d \in DOMAIN library.tracks :
          library'.tracks[d].rating # library.tracks[d].rating
              => step = "ratings" /\ cfg.active /\ cfg.track_ratings_update

\* C21: update_track_ratings gives set_rating a value in [0, 100] for every
\* index of every non-empty list: 0 for a track never played, 1 to 100 for a
\* played one; no other operation of the run changes a rating.
C21_RatingInRange ==
    /\ [](RatingBins /\ RatedInRange)
    /\ [][RatingFrame]_vars

\* the ratings of a played and of a never played source track have been set,
\* both to values they did not have
C21_Witness ==
    /\ Rated
    /\ \E i, j \in DOMAIN source_tracks :
          /\ heap[source_tracks[i]].play_count > 0
          /\ heap[source_tracks[i]].rating = 100
          /\ heap[source_tracks[j]].play_count = 0
          /\ heap[source_tracks[j]].rating = 0
    /\ \E d \in DOMAIN library.tracks :
          library.tracks[d].rating # LibTracks[d].rating

(***************************************************************************)
(* Properties of the draws of weighted_shuffle.                            *)
(***************************************************************************)
\* every weight computed for the input is strictly positive
PositiveWeights ==
    /\ input # <<>>
    /\ \A i \in DOMAIN input : Weight(input[i], min_score_of_input) > 0

\* C22: with exact arithmetic, strictly positive weights and draws within
\* [0, total_weight], at the start of each iteration the two lists are equally
\* long and total_weight is the sum of the remaining weights; the scan always
\* finds a track, 'Weighted shuffle failed' is never raised, and the loop ends
\* after as many draws as there are input tracks.
C22_ScanAlwaysFinds ==
    (Started /\ PositiveWeights) =>
        /\ ~(pc = "raised" /\ err = "RuntimeError")
        /\ pc = "loop" =>
              /\ Len(tracks) = Len(weights)
              /\ total_weight = Sum(weights)
              /\ rng[2] + Len(tracks) = Len(input)
        /\ (pc = "returned" /\ others = 0) => rng[2] = Len(input)

\* a call on three tracks of positive weight has returned, one of its draws
\* having been the whole of the remaining weight
C22_Witness ==
    /\ pc = "returned" /\ call = 1 /\ others = 0
    /\ PositiveWeights
    /\ Len(input) = 3
    /\ \E pos \in DOMAIN stream : stream[pos] = Grid

\* the sum of the first i of the weights
Cumulative(ws, i) == Sum(SubSeq(ws, 1, i))

\* weights 1, 2, 3 (in tenths) and r = 4.2: the third track
ScanExample == Scan(<<10, 20, 30>>, 42 * Grid) = 3

\* the place in tracks of the track a draw has just appended to shuffled
PickedPlace == CHOOSE i \in DOMAIN tracks : tracks[i] = shuffled'[Len(shuffled')]

\* C23: the track a draw r removes and appends is the first of the remaining
\* list at which the cumulative weight reaches r; weights [1, 2, 3] and
\* r = 4.2 select the third.
C23_FirstReaching ==
    [][ (pc = "loop" /\ shuffled' # shuffled) =>
            LET r == total_weight * stream'[rng]
                i == PickedPlace
            IN  /\ ScanExample
                /\ shuffled' = Append(shuffled, tracks[i])
                /\ tracks' = RemoveAt(tracks, i)
                /\ Grid * Cumulative(weights, i) >= r
                /\ \A j \in 1..(i - 1) : Grid * Cumulative(weights, j) < r ]_vars

\* the first draw has passed over the first of three tracks and picked the
\* second
C23_Witness ==
    /\ pc = "loop"
    /\ Len(input) = 3 /\ Len(shuffled) = 1
    /\ shuffled[1] = 2
    /\ PositiveWeights

(***************************************************************************)
(* Properties of the mode.                                                 *)
(***************************************************************************)
\* C27: the mode is a value of highest frequency, and among several such
\* values the one that occurs first in the input list as supplied.
C27_ModeFirstSeen ==
    (ms_in # None /\ ms_out.kind = "MetadataStats") =>
        LET values == ms_in.arg
            best == MaxOf({ Count(values, values[i]) : i \in DOMAIN values })
            first_seen == MinOf({ i \in DOMAIN values :
                                     Count(values, values[i]) = best })
        IN  /\ Count(values, ms_out.mode) = best
            /\ ms_out.mode = values[first_seen]

(***************************************************************************)
(* Further properties of filter_duration.                                  *)
(***************************************************************************)
\* the tracks of the result that come before place i of the list
AcceptedBefore(i) ==
    LET Earlier(id) == id < i
    IN  SelectSeq(fd_out.tracks, Earlier)

\* C24: filter_duration scans the whole list in order and accepts a track
\* exactly when its duration added to those of the tracks accepted before it
\* stays within the budget; a track that does not fit is passed over and a
\* later one that fits is accepted; the result keeps the order of the list.
C24_AcceptsWhatFits ==
    fd_out.kind = "returned" =>
        /\ \A i \in DOMAIN mix_tracks :
              (\E k \in DOMAIN fd_out.tracks : fd_out.tracks[k] = i)
                  <=> MixDuration(AcceptedBefore(i)) + mix_tracks[i].duration
                          <= mix_budget
        /\ \A j, k \in DOMAIN fd_out.tracks :
              j < k => fd_out.tracks[j] < fd_out.tracks[k]

\* of three tracks the second did not fit into 45 minutes and the third did,
\* without filling them
C24_Witness ==
    /\ fd_out.kind = "returned"
    /\ mix_budget = MixtapeBudget
    /\ Len(mix_tracks) = 3
    /\ fd_out.tracks = <<1, 3>>
    /\ MixDuration(fd_out.tracks) < mix_budget

(***************************************************************************)
(* Further properties of meander.                                          *)
(***************************************************************************)
\* the place in remaining of the track a step has just appended to the chain
AcceptedPlace ==
    CHOOSE k \in DOMAIN remaining : remaining[k] = chain'[Len(chain')]

\* the remaining track at place k passes the exclusion rule
PassesAt(k) ==
    /\ me_tracks[remaining[k]].album \notin Range(recent_albums)
    /\ me_tracks[remaining[k]].album_artist \notin Range(recent_album_artists)
    /\ me_tracks[remaining[k]].track_artist \notin Range(recent_track_artists)

\* C25: the track a step of meander accepts passes the exclusion rule and is,
\* among the remaining tracks that pass it, of maximal similarity to the track
\* accepted last, and the first such track in the remaining order.
C25_MostSimilarToLast ==
    [][ (me_pc = "loop" /\ chain' # chain) =>
            LET last == chain[Len(chain)]
                k == AcceptedPlace
            IN  /\ chain' = Append(chain, remaining[k])
                /\ PassesAt(k)
                /\ \A h \in DOMAIN remaining :
                      PassesAt(h) =>
                          /\ sim_key(me_tracks, remaining[h], last)
                                 <= sim_key(me_tracks, remaining[k], last)
                          /\ (h < k =>
                                sim_key(me_tracks, remaining[h], last)
                                    < sim_key(me_tracks, remaining[k], last)) ]_vars

\* the third track of a chain is less similar to the start track than a
\* remaining track that the rule allowed when it was chosen
C25_Witness ==
    /\ me_pc = "loop"
    /\ Len(chain) = 3
    /\ \E h \in DOMAIN remaining :
          /\ \A c \in 1..2 :
                /\ me_tracks[remaining[h]].album # me_tracks[chain[c]].album
                /\ me_tracks[remaining[h]].album_artist
                       # me_tracks[chain[c]].album_artist
                /\ me_tracks[remaining[h]].track_artist
                       # me_tracks[chain[c]].track_artist
          /\ sim_key(me_tracks, remaining[h], chain[1])
                 > sim_key(me_tracks, chain[3], chain[1])

(***************************************************************************)
(* Further properties of show_diffs.                                       *)
(***************************************************************************)
\* C26: a key of both lists whose counts changed gets a change line only when
\* its rating changed by strictly more than 0.01; a change of exactly 0.01
\* gives no line.
C26_StrictThreshold ==
    DiffShown =>
        \A k \in KeysOf(df_current) \cap KeysOf(df_previous) :
            (/\ RecordOf(df_current, k).counts # RecordOf(df_previous, k).counts
             /\ LinesOf(k) # {})
                => Abs(RecordOf(df_current, k).rating
                           - RecordOf(df_previous, k).rating)
                       > rating_diff_threshold

(***************************************************************************)
(* Further properties of the update command.                               *)
(***************************************************************************)
\* C30: in an active run with favorites.update set and a top_percent
\* configured, the favorites step completes without error and the run goes on
\* to the generation of the playlists.
C30_FavoritesComplete ==
    (cfg.active /\ cfg.favorites_update /\ cfg.top_percent # 0) =>
        ~(step = "aborted" /\ abort.in = "update_favorites")

\* C28: in a run without --active no write reaches the library or the
\* device, whatever the configuration: no sync, no album rating cleared, no
\* rating set through the API, no playlist created, cleared, filled or pruned.
C28_TestModeWritesNothing ==
    /\ [](~cfg.active =>
             /\ written \cap {"sync", "album_rating", "rating", "playlist"} = {}
             /\ calls = <<>>)
    /\ [][~cfg.active => library' = library]_vars

\* a run without --active has ended with every switch of the configuration
\* set, playlists generated and snapshots saved
C28_Witness ==
    /\ ~cfg.active /\ step = "done"
    /\ cfg.sync_enabled /\ cfg.album_ratings_clear /\ cfg.track_ratings_update
    /\ cfg.favorites_update /\ cfg.force_update /\ cfg.remove_only
    /\ Len(playlist_map) = 2
    /\ playlist_map[2].tracks # <<>>
    /\ ShuffleName \notin DOMAIN files.sentinels
    /\ files.snapshots # {}

\* the calls the step just taken has made that name the playlist nm
CallsOn(nm) ==
    LET Names(c) == c[2] = nm
    IN  SelectSeq(SubSeq(calls', Len(calls) + 1, Len(calls')), Names)

\* the database IDs of the new sequence of the k-th generated playlist
NewSequence(k) ==
    [i \in DOMAIN playlist_map[k].tracks |-> heap[playlist_map[k].tracks[i]].dbid]

\* force_update is set, or the sentinel of nm is missing, or update_every is
\* configured and the sentinel is older than it
DueForUpdate(nm) ==
    \/ cfg.force_update
    \/ nm \notin DOMAIN files.sentinels
    \/ cfg.update_every # 0 /\ files.sentinels[nm] > cfg.update_every

\* C29: in an active run a generated playlist is rebuilt (cleared, then filled
\* with the new sequence) if and only if force_update is set or the playlist
\* is overdue; the sentinel is touched only after a rebuild has completed;
\* a playlist not rebuilt under remove_only only loses the tracks absent from
\* the new sequence and gains none.
C29_RebuildIffDue ==
    [][ (step = "playlists" /\ cfg.active) =>
          \A k \in DOMAIN playlist_map :
              LET nm == playlist_map[k].name
                  on == CallsOn(nm)
                  rebuilt == \E c \in DOMAIN on : on[c][1] = "clear"
                  Built(c) == c[1] \notin {"make", "touch"}
                  Gone(d) == d \in Range(NewSequence(k))
              IN  /\ rebuilt <=> DueForUpdate(nm)
                  /\ rebuilt =>
                        /\ SelectSeq(on, Built)
                              = << <<"clear", nm>> >>
                                  \o [i \in DOMAIN NewSequence(k) |->
                                         <<"add", nm, NewSequence(k)[i]>>]
                        /\ library'.playlists[nm] = NewSequence(k)
                        /\ on[Len(on)] = <<"touch", nm>>
                  /\ \A c \in DOMAIN on :
                        on[c][1] = "touch" => (rebuilt /\ c = Len(on))
                  /\ ~rebuilt =>
                        /\ files'.sentinels[nm] = files.sentinels[nm]
                        /\ \A c \in DOMAIN on :
                              /\ on[c][1] = "delete"
                              /\ on[c][3] \notin Range(NewSequence(k))
                        /\ (cfg.remove_only /\ nm \in DOMAIN library.playlists)
                              => library'.playlists[nm]
                                     = SelectSeq(library.playlists[nm], Gone) ]_vars

\* in one active run the overdue playlist, its sentinel an hour old, only
\* lost tracks, and the shuffle playlist, its sentinel two days old, was
\* cleared, filled with three tracks and its sentinel touched last
C29_Witness ==
    /\ cfg.active /\ step = "stats"
    /\ ~cfg.force_update /\ cfg.remove_only /\ cfg.update_every # 0
    /\ Len(calls) = 7
    /\ calls[1] = <<"delete", OverdueName, 3>>
    /\ calls[3] = <<"clear", ShuffleName>>
    /\ calls[4][1] = "add" /\ calls[6][1] = "add"
    /\ calls[7] = <<"touch", ShuffleName>>
    /\ files.sentinels[OverdueName] = ONE_HOUR
    /\ files.sentinels[ShuffleName] = 0

====
